---- MODULE Spec2Model ----
(***************************************************************************)
(* Model of the FA gallery downloader's content-acquisition pipeline:      *)
(* the persistent store (database-interface), the download workers and the *)
(* reconciler (download-content), and the walker / harvester (scrape-data).*)
(*                                                                         *)
(* Text values are sequences of tokens, so that the string operations of   *)
(* the code (concatenation, split, trailing-dot tests, LIKE patterns) are  *)
(* computed rather than assumed.                                           *)
(***************************************************************************)
EXTENDS Integers, Sequences, FiniteSets, TLC

\* SQL NULL / JavaScript null-undefined for text values.
NULL == << "<null>" >>
\* The empty string ''.
Blank == << >>

\* ------------------------------------------------------------------ bounds
MaxOps == 2          \* store calls per behaviour of SpecStore
MaxLinks == 2        \* longest link list handed to saveLinks / saveFavorites
MaxItems == 2        \* rows in the store when the download workers start
MaxPolls == 2        \* polls made by one worker in a behaviour
MaxLegacy == 2       \* saved-but-unmoved rows when the reconciler starts
MaxRuns == 2         \* reconciler runs in a behaviour

\* --------------------------------------------------------- text operations
Last(s) == s[Len(s)]

\* /\.$/.test(s)  and  s LIKE '%.'
EndsWithDot(s) == Len(s) > 0 /\ Last(s) = "."

\* s.replace(/\.$/, '._')
ReplaceTrailingDot(s) == IF EndsWithDot(s) THEN s \o << "_" >> ELSE s

\* s LIKE '%/<cat>/%'
LikeCategory(s, cat) ==
  \E i \in 1..(Len(s) - 2) : s[i] = "/" /\ s[i + 1] = cat /\ s[i + 2] = "/"

\* position of the last token t in s, 0 when absent
LastIndexOf(s, t) ==
  IF \E i \in 1..Len(s) : s[i] = t
  THEN CHOOSE i \in 1..Len(s) : s[i] = t /\ \A j \in (i + 1)..Len(s) : s[j] # t
  ELSE 0

\* position of the first token t in s, Len(s)+1 when absent
FirstIndexOf(s, t) ==
  IF \E i \in 1..Len(s) : s[i] = t
  THEN CHOOSE i \in 1..Len(s) : s[i] = t /\ \A j \in 1..(i - 1) : s[j] # t
  ELSE Len(s) + 1

\* s.split('/').pop()
SplitPop(s) == SubSeq(s, LastIndexOf(s, "/") + 1, Len(s))

\* url.split('view/')[1].split('/')[0]
IdOfUrl(u) ==
  LET rest == SubSeq(u, FirstIndexOf(u, "view/") + 1, Len(u))
  IN SubSeq(rest, 1, FirstIndexOf(rest, "/") - 1)

\* username.replace(/_/gi, '')
StripUnderscores(s) == SelectSeq(s, LAMBDA t : t # "_")

\* /^https/i.test(s)
StartsWithHttps(s) == Len(s) > 0 /\ s[1] = "https:"

\* JavaScript truthiness of a text value
Truthy(s) == s # NULL /\ s # Blank

BoolToInt(b) == IF b THEN 1 ELSE 0

Range(s) == { s[i] : i \in 1..Len(s) }

\* ------------------------------------------------------------ store schema
\* CREATE TABLE subdata (...)
Columns ==
  { "id", "title", "desc", "tags", "url", "is_scrap", "date_uploaded",
    "content_url", "content_name", "is_content_saved", "username",
    "account_name", "rating", "category", "thumbnail_url", "thumbnail_name",
    "is_thumbnail_saved", "thumbnail_missing", "content_missing",
    "moved_content", "is_favorite", "favorite_username", "content_owner" }

\* the INTEGER DEFAULT 0 columns
ZeroDefaultColumns ==
  { "is_content_saved", "is_thumbnail_saved", "thumbnail_missing",
    "content_missing", "moved_content", "is_favorite" }

\* a row as INSERT leaves it when only some columns are given
DefaultRow ==
  [ c \in Columns |->
      IF c \in ZeroDefaultColumns \/ c = "is_scrap" THEN 0 ELSE NULL ]

VARIABLES
  subdata,            \* table subdata: sequence of rows in rowid order
  favorites,          \* table favorites: sequence of [id, username, url]
  files,              \* paths of the files on disk
  dirs,               \* directories on disk
  stopNow,            \* stop.now, the process-wide cancellation flag
  thumbnailsRunning,  \* module flag of download-content
  pc,                 \* position of each download worker
  data,               \* each worker's current poll batch
  idx,                \* each worker's index i into its batch
  job,                \* arguments of the worker's current downloadSetup call
  retryCount,         \* retryCount of the worker's current downloadSetup call
  outcome,            \* how the worker's last downloadSetup call settled
  pendingMissing,     \* missing marks issued without await, not yet run
  streamed,           \* content urls whose download stream has finished
  polls,              \* polls made so far by each worker
  site,               \* "up": probes may succeed; "outage": every probe fails
  rpc,                \* position of the reconciler
  rContent,           \* the reconciler's batch
  ri,                 \* the reconciler's index
  run,                \* number of the reconciler run in progress
  lastOp,             \* the last store call made directly, and its result
  ops,                \* number of direct store calls made
  stage,              \* the component of the pipeline that is running
  walk,               \* locals of the walker, getSubmissionLinks
  harvest,            \* locals of the harvester, scrapeSubmissionInfo
  prune,              \* locals of deleteInvalidFiles
  commentdata,        \* table commentdata: sequence of rows in rowid order
  master,             \* the tables of the database file and their columns
  txn                 \* the transaction of the shared connection `db`, and the
                      \* position of the calls that open one

vars ==
  << subdata, favorites, files, dirs, stopNow, thumbnailsRunning, pc, data,
     idx, job, retryCount, outcome, pendingMissing, streamed, polls, site,
     rpc, rContent, ri, run, lastOp, ops, stage, walk, harvest, prune,
     commentdata, master, txn >>

storeVars == << subdata, favorites >>
workerVars ==
  << stopNow, thumbnailsRunning, pc, data, idx, job, retryCount, outcome,
     pendingMissing, streamed, polls, site >>
fsVars == << files, dirs >>
reconcilerVars == << rpc, rContent, ri, run >>
callVars == << lastOp, ops >>
scraperVars == << walk, harvest, prune >>
schemaVars == << commentdata, master, txn >>
restVars == << stage, scraperVars, schemaVars >>

\* indices of the rows a WHERE col = v clause selects (NULL matches nothing)
RowsWhere(tbl, col, v) ==
  IF v = NULL THEN {} ELSE { i \in 1..Len(tbl) : tbl[i][col] = v }

\* UPDATE tbl SET <changes> on the rows in sel
UpdateRows(tbl, sel, changes) ==
  [ i \in 1..Len(tbl) |->
      IF i \in sel
      THEN [ c \in Columns |-> IF c \in DOMAIN changes THEN changes[c] ELSE tbl[i][c] ]
      ELSE tbl[i] ]

\* validateInput(data, 'string')
ValidString(v) == v # NULL

\* ------------------------------------------------------- store: submissions
\* One row of INSERT INTO subdata, written with the conflict clause of the
\* url column left out: the row is always stored.
InsertSubdataRowNoConflictClause(tbl, row) == Append(tbl, row)

\* One row of INSERT INTO subdata: url is UNIQUE ON CONFLICT IGNORE, so a row
\* whose url is already stored is skipped and the statement goes on.
InsertSubdataRow(tbl, row) ==
  IF row["url"] # NULL /\ \E i \in 1..Len(tbl) : tbl[i]["url"] = row["url"]
  THEN tbl
  ELSE Append(tbl, row)

RECURSIVE InsertLinks(_, _, _, _)
InsertLinks(tbl, links, isScraps, username) ==
  IF links = << >>
  THEN tbl
  ELSE InsertLinks(
         InsertSubdataRow(tbl,
           [ DefaultRow EXCEPT !["url"] = Head(links),
                               !["username"] = username,
                               !["is_scrap"] = BoolToInt(isScraps),
                               !["is_content_saved"] = BoolToInt(FALSE) ]),
         Tail(links), isScraps, username)

\* saveLinks(links, isScraps, username): ok is FALSE when the promise rejects
\* (an INSERT with no VALUES row is a syntax error).
saveLinks(tbl, links, isScraps, username) ==
  IF links = << >>
  THEN [ ok |-> FALSE, sub |-> tbl ]
  ELSE [ ok |-> TRUE, sub |-> InsertLinks(tbl, links, isScraps, username) ]

\* deleteSubmission(url)
deleteSubmission(tbl, url) ==
  IF ~ValidString(url)
  THEN [ ok |-> FALSE, sub |-> tbl ]
  ELSE [ ok |-> TRUE, sub |-> SelectSeq(tbl, LAMBDA r : r["url"] # url) ]

\* setContentSaved(content_url)
setContentSaved(tbl, content_url) ==
  IF ~ValidString(content_url)
  THEN [ ok |-> FALSE, sub |-> tbl ]
  ELSE [ ok |-> TRUE,
         sub |-> UpdateRows(tbl, RowsWhere(tbl, "content_url", content_url),
                            [ is_content_saved |-> 1, moved_content |-> 1 ]) ]

\* setContentNotSaved(content_url)
setContentNotSaved(tbl, content_url) ==
  IF ~ValidString(content_url)
  THEN [ ok |-> FALSE, sub |-> tbl ]
  ELSE [ ok |-> TRUE,
         sub |-> UpdateRows(tbl, RowsWhere(tbl, "content_url", content_url),
                            [ is_content_saved |-> 0, moved_content |-> 1 ]) ]

\* setContentMoved(content_name)
setContentMoved(tbl, content_name) ==
  IF ~ValidString(content_name)
  THEN [ ok |-> FALSE, sub |-> tbl ]
  ELSE [ ok |-> TRUE,
         sub |-> UpdateRows(tbl, RowsWhere(tbl, "content_name", content_name),
                            [ moved_content |-> 1 ]) ]

setContentMissingAndMoved(tbl, content_name) ==
  IF ~ValidString(content_name)
  THEN [ ok |-> FALSE, sub |-> tbl ]
  ELSE [ ok |-> TRUE,
         sub |-> UpdateRows(tbl, RowsWhere(tbl, "content_name", content_name),
                            [ content_missing |-> 1, moved_content |-> 1 ]) ]

\* setContentMissing(content_name)
setContentMissing(tbl, content_name) ==
  IF ~ValidString(content_name)
  THEN [ ok |-> FALSE, sub |-> tbl ]
  ELSE [ ok |-> TRUE,
         sub |-> UpdateRows(tbl, RowsWhere(tbl, "content_name", content_name),
                            [ content_missing |-> 1 ]) ]

\* setThumbnailMissing(thumbnail_url)
setThumbnailMissing(tbl, thumbnail_url) ==
  IF ~ValidString(thumbnail_url)
  THEN [ ok |-> FALSE, sub |-> tbl ]
  ELSE [ ok |-> TRUE,
         sub |-> UpdateRows(tbl, RowsWhere(tbl, "thumbnail_url", thumbnail_url),
                            [ thumbnail_missing |-> 1 ]) ]

\* setThumbnailSaved(url, thumbnail_url, thumbnail_name)
setThumbnailSaved(tbl, url, thumbnail_url, thumbnail_name) ==
  IF ~ValidString(url) \/ ~ValidString(thumbnail_url) \/ ~ValidString(thumbnail_name)
  THEN [ ok |-> FALSE, sub |-> tbl ]
  ELSE [ ok |-> TRUE,
         sub |-> UpdateRows(tbl, RowsWhere(tbl, "url", url),
                            [ is_thumbnail_saved |-> 1,
                              thumbnail_url |-> thumbnail_url,
                              thumbnail_name |-> thumbnail_name ]) ]

\* --------------------------------------------------------- store: metadata
\* Property names are strings; the spelling of a name that is not a plain
\* word is given token by token so that the pattern test can be computed.
KeySpelling ==
  [ k \in { "bad-key", "a b" } |->
      IF k = "bad-key" THEN << "bad", "-", "key" >> ELSE << "a", " ", "b" >> ]

Spelling(k) == IF k \in DOMAIN KeySpelling THEN KeySpelling[k] ELSE << k >>

\* tokens made only of letters, digits and underscores
WordTokens == Columns \cup { "bogus", "bad", "key", "a", "b", "_" }

\* key.match(/^[a-zA-Z0-9_]+$/)
MatchesIdentifier(k) ==
  Len(Spelling(k)) > 0 /\ \A i \in 1..Len(Spelling(k)) : Spelling(k)[i] \in WordTokens

\* PRIMARY KEY(id): two rows with the same non-null id
PrimaryKeyConflict(tbl) ==
  \E i, j \in 1..Len(tbl) :
    i # j /\ tbl[i]["id"] # NULL /\ tbl[i]["id"] = tbl[j]["id"]

\* the property names saveMetaData keeps, written without the pattern test
QueryNamesNoPattern(d) == DOMAIN d.set

\* the property names saveMetaData keeps: those with a value that is neither
\* null nor undefined and whose name matches the pattern
QueryNames(d) == { k \in DOMAIN d.set : MatchesIdentifier(k) }

\* saveMetaData(url, d).  d.set holds the properties with a value, d.nulls the
\* names of the properties that are null or undefined.  ret: "null" when
\* nothing was left to update, "run" when the UPDATE ran, "throw" on rejection.
saveMetaData(tbl, url, d) ==
  LET names == QueryNames(d)
      updated == UpdateRows(tbl, RowsWhere(tbl, "url", url),
                            [ k \in names |-> d.set[k] ])
  IN IF ~ValidString(url)
     THEN [ ok |-> FALSE, ret |-> "throw", sub |-> tbl ]
     ELSE IF names = {}
     THEN [ ok |-> TRUE, ret |-> "null", sub |-> tbl ]
     ELSE IF \E k \in names : k \notin Columns \/ ~MatchesIdentifier(k)
     THEN [ ok |-> FALSE, ret |-> "throw", sub |-> tbl ]
     ELSE IF PrimaryKeyConflict(updated)
     THEN [ ok |-> FALSE, ret |-> "throw", sub |-> tbl ]
     ELSE [ ok |-> TRUE, ret |-> "run", sub |-> updated ]

\* --------------------------------------------------------- store: favorites
\* `${username}_${val}`
FavoriteId(username, val) == username \o << "_" >> \o val

\* the links of a saveFavorites call that pass validateInput(val, 'string')
ValidLinks(links) == SelectSeq(links, ValidString)

\* INSERT INTO favorites of the rows for `links`, in order.  id is the PRIMARY
\* KEY (a conflict aborts the statement); UNIQUE(username, url) ON CONFLICT
\* REPLACE is checked after it and deletes the row it conflicts with.
RECURSIVE InsertFavorites(_, _, _)
InsertFavorites(fav, username, links) ==
  IF links = << >>
  THEN [ ok |-> TRUE, fav |-> fav ]
  ELSE LET row == [ id |-> FavoriteId(username, Head(links)),
                    username |-> username,
                    url |-> Head(links) ]
       IN IF \E i \in 1..Len(fav) : fav[i].id = row.id
          THEN [ ok |-> FALSE, fav |-> fav ]
          ELSE InsertFavorites(
                 Append(SelectSeq(fav, LAMBDA f : ~(f.username = row.username
                                                    /\ f.url = row.url)),
                        row),
                 username, Tail(links))

\* the UPDATE subdata SET is_favorite = 1, favorite_username = ? WHERE url = ?
\* statements of saveFavorites, one per valid link, the first `n` of them
RECURSIVE MarkFavorites(_, _, _, _)
MarkFavorites(tbl, username, links, n) ==
  IF links = << >> \/ n = 0
  THEN tbl
  ELSE MarkFavorites(
         UpdateRows(tbl, RowsWhere(tbl, "url", Head(links)),
                    [ is_favorite |-> 1, favorite_username |-> username ]),
         username, Tail(links), n - 1)

\* What the catch block of saveFavorites leaves when a statement of the
\* transaction fails, written without the ROLLBACK: the statements that ran
\* before the failure stay.
FailedTransactionNoRollback(tbl, fav, tblDone, favDone) ==
  [ ok |-> FALSE, ret |-> "throw", sub |-> tblDone, fav |-> favDone ]

\* What the catch block of saveFavorites leaves when a statement of the
\* transaction fails: ROLLBACK restores both tables as they were at BEGIN
\* TRANSACTION, and the error is thrown again.
FailedTransaction(tbl, fav, tblDone, favDone) ==
  [ ok |-> FALSE, ret |-> "throw", sub |-> tbl, fav |-> fav ]

\* saveFavorites(username, links).  failAt = k > 0: the k-th UPDATE statement
\* is rejected by the database (disk full, I/O error); failAt = 0: none is.
saveFavorites(tbl, fav, username, links, failAt) ==
  LET valid == ValidLinks(links)
      inserted == InsertFavorites(fav, username, valid)
  IN IF ~ValidString(username) \/ Len(links) = 0
     THEN [ ok |-> TRUE, ret |-> "null", sub |-> tbl, fav |-> fav ]
     ELSE IF Len(valid) = 0
     THEN [ ok |-> TRUE, ret |-> "null", sub |-> tbl, fav |-> fav ]
     ELSE IF ~inserted.ok
     THEN FailedTransaction(tbl, fav, tbl, fav)
     ELSE IF failAt \in 1..Len(valid)
     THEN FailedTransaction(tbl, fav,
            MarkFavorites(tbl, username, valid, failAt - 1), inserted.fav)
     ELSE [ ok |-> TRUE, ret |-> "changes",
            sub |-> MarkFavorites(tbl, username, valid, Len(valid)),
            fav |-> inserted.fav ]

\* ------------------------------------------------------------ store: polls
\* collation of the tokens that occur in content names and in urls
Collation ==
  << "<null>", "#cid", ".", "/", "101", "102", "103", "104", "_", "doc", "fa",
     "pic.png", "song.mp3", "tale.txt", "view/" >>

TokenRank(t) == CHOOSE i \in 1..Len(Collation) : Collation[i] = t

\* a < b in string order
RECURSIVE TextLess(_, _)
TextLess(a, b) ==
  IF a = << >> THEN b # << >>
  ELSE IF b = << >> THEN FALSE
  ELSE IF Head(a) = Head(b) THEN TextLess(Tail(a), Tail(b))
  ELSE TokenRank(Head(a)) < TokenRank(Head(b))

RECURSIVE OrderByNameAsc(_, _)
OrderByNameAsc(tbl, sel) ==
  IF sel = {}
  THEN << >>
  ELSE LET first ==
             CHOOSE i \in sel :
               \A j \in sel \ {i} :
                 \/ TextLess(tbl[i]["content_name"], tbl[j]["content_name"])
                 \/ tbl[j]["content_name"] = tbl[i]["content_name"] /\ i < j
       IN << first >> \o OrderByNameAsc(tbl, sel \ {first})

\* ORDER BY content_name DESC over the rows in sel; rows with equal names
\* stay in rowid order
RECURSIVE OrderByNameDesc(_, _)
OrderByNameDesc(tbl, sel) ==
  IF sel = {}
  THEN << >>
  ELSE LET first ==
             CHOOSE i \in sel :
               \A j \in sel \ {i} :
                 \/ TextLess(tbl[j]["content_name"], tbl[i]["content_name"])
                 \/ tbl[j]["content_name"] = tbl[i]["content_name"] /\ i < j
       IN << first >> \o OrderByNameDesc(tbl, sel \ {first})

\* SELECT <cols> of the rows at the positions `order`
Project(tbl, order, cols) ==
  [ k \in 1..Len(order) |-> [ c \in cols |-> tbl[order[k]][c] ] ]

RowOrder(sel) ==
  LET RECURSIVE asc(_)
      asc(rest) ==
        IF rest = {} THEN << >>
        ELSE LET m == CHOOSE i \in rest : \A j \in rest : i <= j
             IN << m >> \o asc(rest \ {m})
  IN asc(sel)

\* the WHERE clause of getAllUnsavedContent, written without the
\* content_missing = 0 term
UnsavedContentWhereNoMissingTerm(r) ==
  /\ r["is_content_saved"] = 0
  /\ r["content_url"] # NULL
  /\ r["content_name"] # NULL /\ ~EndsWithDot(r["content_name"])
  /\ r["username"] # NULL

\* the WHERE clause of getAllUnsavedContent() (no name filter)
UnsavedContentWhere(r) ==
  /\ r["is_content_saved"] = 0
  /\ r["content_missing"] = 0
  /\ r["content_url"] # NULL
  /\ r["content_name"] # NULL /\ ~EndsWithDot(r["content_name"])
  /\ r["username"] # NULL

\* getAllUnsavedContent()
getAllUnsavedContent(tbl) ==
  Project(tbl,
          OrderByNameDesc(tbl, { i \in 1..Len(tbl) : UnsavedContentWhere(tbl[i]) }),
          { "content_url", "content_name", "username", "account_name", "url" })

\* the WHERE clause of getAllUnsavedThumbnails()
UnsavedThumbnailWhere(r) ==
  /\ r["is_thumbnail_saved"] = 0
  /\ r["username"] # NULL
  /\ r["thumbnail_missing"] = 0
  /\ r["content_url"] # NULL
  /\ \/ LikeCategory(r["content_url"], "stories")
     \/ LikeCategory(r["content_url"], "music")
     \/ LikeCategory(r["content_url"], "poetry")

\* getAllUnsavedThumbnails()
getAllUnsavedThumbnails(tbl) ==
  Project(tbl,
          OrderByNameDesc(tbl, { i \in 1..Len(tbl) : UnsavedThumbnailWhere(tbl[i]) }),
          { "url", "content_url", "username", "thumbnail_url", "account_name", "id" })

\* getAllUnmovedContentData()
getAllUnmovedContentData(tbl) ==
  Project(tbl,
          RowOrder({ i \in 1..Len(tbl) :
                       tbl[i]["is_content_saved"] = 1 /\ tbl[i]["moved_content"] = 0 }),
          { "content_url", "content_name", "username", "account_name" })

\* -------------------------------------------- store: comments and lookups
\* The mutation that INSERTs a comment without the ON CONFLICT(id) clause
\* applying: the row is appended.
UpsertCommentAppendsAlways(tbl, c) == Append(tbl, c)

\* One VALUES row of saveComments: ON CONFLICT(id) DO UPDATE SET desc, date.
\* id is the primary key; a NULL id conflicts with nothing.
UpsertComment(tbl, c) ==
  IF c.id # NULL /\ \E i \in 1..Len(tbl) : tbl[i].id = c.id
  THEN [ i \in 1..Len(tbl) |->
           IF tbl[i].id = c.id
           THEN [ tbl[i] EXCEPT !.desc = c.desc, !.date = c.date ]
           ELSE tbl[i] ]
  ELSE Append(tbl, c)

RECURSIVE UpsertComments(_, _)
UpsertComments(tbl, comments) ==
  IF comments = << >> THEN tbl
  ELSE UpsertComments(UpsertComment(tbl, Head(comments)), Tail(comments))

\* saveComments(comments): ok is FALSE when the promise rejects (an INSERT
\* with no VALUES row is a syntax error)
saveComments(tbl, comments) ==
  IF comments = << >>
  THEN [ ok |-> FALSE, tbl |-> tbl ]
  ELSE [ ok |-> TRUE, tbl |-> UpsertComments(tbl, comments) ]

\* ORDER BY url DESC over the rows in sel
RECURSIVE OrderByUrlDesc(_, _)
OrderByUrlDesc(tbl, sel) ==
  IF sel = {}
  THEN << >>
  ELSE LET first == CHOOSE i \in sel :
                      \A j \in sel \ {i} : TextLess(tbl[j]["url"], tbl[i]["url"])
       IN << first >> \o OrderByUrlDesc(tbl, sel \ {first})

\* db.getSubmissionLinks(): the links with uncollected data
dbGetSubmissionLinks(tbl) ==
  Project(tbl, OrderByUrlDesc(tbl, { i \in 1..Len(tbl) : tbl[i]["id"] = NULL }),
          { "url" })

\* getSubmissionOwner(url): the rows db.get chooses from; db.get returns the
\* first of them, or undefined
SubmissionOwnerRows(tbl, url) ==
  { i \in 1..Len(tbl) : tbl[i]["content_url"] = url \/ tbl[i]["url"] = url }

\* getAllSubmissionsForUser(username): the positions of the rows it returns
AllSubmissionsForUser(tbl, username) ==
  { i \in 1..Len(tbl) :
      /\ username # NULL
      /\ tbl[i]["username"] = username \/ tbl[i]["account_name"] = username
      /\ tbl[i]["is_content_saved"] = 1
      /\ tbl[i]["id"] # NULL }

\* getAllInvalidFiles()
getAllInvalidFiles(tbl) ==
  Project(tbl,
          RowOrder({ i \in 1..Len(tbl) :
                       /\ tbl[i]["content_name"] # NULL
                       /\ EndsWithDot(tbl[i]["content_name"])
                       /\ tbl[i]["is_content_saved"] = 1 }),
          { "id", "content_name", "content_url", "username", "account_name", "url" })

\* deleteAccount(name): the rows of subdata and of favorites it leaves
deleteAccount(tbl, fav, name) ==
  [ sub |-> SelectSeq(tbl, LAMBDA r : r["account_name"] # name /\ r["username"] # name),
    fav |-> SelectSeq(fav, LAMBDA f : f.username # name) ]

\* ------------------------------------------------------- the remote site
\* Listing links as the walker builds them: FA_URL_BASE + href
UA == << "fa", "view/", "101", "/" >>
UB == << "fa", "view/", "102", "/" >>
UC == << "fa", "view/", "103", "/" >>
UD == << "fa", "view/", "104", "/" >>
\* a second link to submission 101
UA2 == << "fa", "view/", "101", "/", "#cid" >>

Alice == << "alice" >>
BobDot == << "bob", "_", "." >>

\* What the field extractor reads from each detail page: the title, the
\* owner, the href of the download link and the src of the inline preview.
Catalog ==
  [ u \in { UA, UB, UC, UD, UA2 } |->
      IF u = UA \/ u = UA2 THEN
        [ title |-> << "t1" >>, username |-> Alice,
          href |-> << "/", "art", "/", "alice", "/", "pic.png" >>,
          src |-> Blank ]
      ELSE IF u = UB THEN
        [ title |-> << "t2" >>, username |-> Alice,
          href |-> << "/", "stories", "/", "alice", "/", "tale.txt" >>,
          src |-> << "/", "t", "/", "tale.jpg" >> ]
      ELSE IF u = UC THEN
        [ title |-> << "t3" >>, username |-> BobDot,
          href |-> << "/", "music", "/", "bob", "/", "song.mp3" >>,
          src |-> Blank ]
      ELSE
        [ title |-> << "t4" >>, username |-> BobDot,
          href |-> << "/", "art", "/", "bob", "/", "pic.png" >>,
          src |-> Blank ] ]

\* a detail page can be edited between two visits: the title changes
PageVersions(u) ==
  { Catalog[u], [ Catalog[u] EXCEPT !.title = << "edited" >> ] }

\* the id the harvester derives, written as a field read from the page
HarvestIdFromPage(url, page) == page.title

\* the id the harvester derives for a link: url.split('view/')[1].split('/')[0]
HarvestId(url, page) == IdOfUrl(url)

\* the data object scrapeSubmissionInfo builds from a loaded detail page;
\* desc, tags, date_uploaded, rating and category are copied from the page
\* and read by no operation of the pipeline
HarvestData(url, page) ==
  LET content_url == IF StartsWithHttps(page.href)
                     THEN page.href ELSE << "https:" >> \o page.href
      thumbnail_url == IF Truthy(page.src) /\ ~StartsWithHttps(page.src)
                       THEN << "https:" >> \o page.src ELSE page.src
  IN [ set |->
         [ id |-> HarvestId(url, page),
           title |-> page.title,
           username |-> page.username,
           account_name |-> StripUnderscores(page.username),
           desc |-> << "desc" >>,
           content_name |-> SplitPop(page.href),
           content_url |-> content_url,
           date_uploaded |-> << "date" >>,
           thumbnail_url |-> thumbnail_url,
           rating |-> << "General" >>,
           category |-> << "cat" >>,
           content_owner |-> page.username ],
       nulls |-> { "tags" } ]

\* the object the walker passes to mark a favorite
FavoriteMark(username) ==
  [ set |-> [ is_favorite |-> 1, favorite_username |-> username ], nulls |-> {} ]

\* the store after the walker persisted `links` for `username`
Discovered(links, username) == saveLinks(<< >>, links, FALSE, username).sub

\* the store after the harvester persisted the metadata of every row of tbl
RECURSIVE HarvestedFrom(_, _)
HarvestedFrom(tbl, k) ==
  IF k = 0
  THEN tbl
  ELSE LET prev == HarvestedFrom(tbl, k - 1)
       IN saveMetaData(prev, prev[k]["url"],
                       HarvestData(prev[k]["url"], Catalog[prev[k]["url"]])).sub

Harvested(links, username) ==
  HarvestedFrom(Discovered(links, username), Len(Discovered(links, username)))

\* ---------------------------------------------------------------- at rest
Workers == { "content", "thumbnail" }

NoJob == [ content_url |-> NULL, content_name |-> NULL, username |-> NULL,
           subfolder |-> "", url |-> NULL ]

WorkersAtRest ==
  /\ stopNow = FALSE
  /\ thumbnailsRunning = FALSE
  /\ pc = [ w \in Workers |-> "idle" ]
  /\ data = [ w \in Workers |-> << >> ]
  /\ idx = [ w \in Workers |-> 0 ]
  /\ job = [ w \in Workers |-> NoJob ]
  /\ retryCount = [ w \in Workers |-> 0 ]
  /\ outcome = [ w \in Workers |-> "none" ]
  /\ pendingMissing = {}
  /\ streamed = {}
  /\ polls = [ w \in Workers |-> 0 ]
  /\ site = "up"

ReconcilerAtRest ==
  /\ rpc = "idle"
  /\ rContent = << >>
  /\ ri = 0
  /\ run = 0

NoCalls ==
  /\ lastOp = [ op |-> "none", ok |-> TRUE ]
  /\ ops = 0

\* the walker before getSubmissionLinks is called
NoWalk ==
  [ pc |-> "idle", username |-> NULL, isScraps |-> FALSE, isFavorites |-> FALSE,
    gallery |-> << >>, currPageCount |-> 1, currLinks |-> 0, newLinks |-> 0,
    retryCount |-> 0, waitMs |-> 0, filteredLinks |-> << >>, passed |-> {},
    report |-> [ logged |-> FALSE, found |-> 0, new |-> 0, skipped |-> 0 ] ]

\* the harvester before scrapeSubmissionInfo is called
NoHarvest ==
  [ pc |-> "idle", links |-> << >>, index |-> 0, retryCount |-> 0,
    waitMs |-> 0, downloadComments |-> FALSE, seen |-> "none",
    page |-> [ title |-> NULL, username |-> NULL, href |-> NULL, src |-> NULL ],
    comments |-> << >> ]

\* deleteInvalidFiles before it is called
NoPrune == [ pc |-> "idle", brokenFiles |-> << >>, i |-> 0 ]

ScrapersAtRest ==
  /\ walk = NoWalk
  /\ harvest = NoHarvest
  /\ prune = NoPrune

\* the tables init() creates, and the columns of subdata
TableNames == { "subdata", "favorites", "commentdata", "usersettings", "ownedaccounts" }

InitializedMaster ==
  [ tables |-> TableNames, subdataColumns |-> Columns,
    usersettings |-> 1, user_version |-> 2 ]

\* no transaction is open on the connection, and neither saveFavorites nor
\* getSubmissionPage is in flight
NoTransaction ==
  [ open |-> FALSE, owner |-> "none", sub |-> << >>, fav |-> << >>,
    sf |-> "idle", links |-> << >>, i |-> 0, gp |-> "idle" ]

SchemaAtRest ==
  /\ commentdata = << >>
  /\ master = InitializedMaster
  /\ txn = NoTransaction

\* ------------------------------------------- the store called directly
\* Every write of the pipeline goes through one of these calls, and the
\* pipeline makes them one at a time: SpecStore makes any MaxOps of them, with
\* the arguments the walker, the harvester, the workers and the reconciler
\* pass, starting from an empty, a discovered or a harvested store.
StoreUrls == { UA, UB }
Usernames == { Alice, BobDot }

\* link lists of 1..MaxLinks links
LinkLists == UNION { [ 1..n -> StoreUrls ] : n \in 1..MaxLinks }

\* link lists for saveFavorites: as above, or with one entry that is no string
FavoriteLists ==
  LinkLists \cup
  { Append(l, NULL) : l \in UNION { [ 1..n -> StoreUrls ] : n \in 0..MaxLinks } }

\* objects handed to saveMetaData that carry a name that is no column
ProbeObjects ==
  { [ set |-> [ title |-> << "probe" >>, bogus |-> << "x" >> ], nulls |-> {} ],
    [ set |-> ("title" :> << "probe" >>) @@ ("bad-key" :> << "x" >>), nulls |-> {} ],
    [ set |-> ("bad-key" :> << "x" >>), nulls |-> {} ],
    [ set |-> ("title" :> << "probe" >>) @@ ("a b" :> << "x" >>), nulls |-> { "rating" } ],
    [ set |-> [ title |-> << "probe" >> ], nulls |-> { "bogus" } ] }

InitStore ==
  /\ subdata \in { << >>,
                    Discovered(<< UA, UB >>, Alice),
                    Harvested(<< UA, UB >>, Alice),
                    Discovered(<< UA, UA2 >>, Alice) }
  /\ favorites = << >>
  /\ files = {}
  /\ dirs = {}
  /\ WorkersAtRest
  /\ ReconcilerAtRest
  /\ NoCalls
  /\ stage = "store"
  /\ ScrapersAtRest
  /\ SchemaAtRest

Called(op, res, args) ==
  /\ ops < MaxOps
  /\ ops' = ops + 1
  /\ subdata' = res.sub
  /\ lastOp' = [ op |-> op, ok |-> res.ok ] @@ args
  /\ UNCHANGED << fsVars, workerVars, reconcilerVars, restVars >>

NoArgs == [ n \in {} |-> 0 ]

CallSaveLinks ==
  \E links \in LinkLists, isScraps \in BOOLEAN, username \in Usernames :
    /\ Called("saveLinks", saveLinks(subdata, links, isScraps, username),
              [ known |-> \E k \in 1..Len(links) :
                            RowsWhere(subdata, "url", links[k]) # {} ])
    /\ UNCHANGED favorites

CallHarvestSave ==
  \E i \in 1..Len(subdata) :
    \E page \in PageVersions(subdata[i]["url"]) :
      /\ Called("harvest",
                saveMetaData(subdata, subdata[i]["url"],
                             HarvestData(subdata[i]["url"], page)),
                [ again |-> subdata[i]["id"] # NULL ])
      /\ UNCHANGED favorites

CallFavoriteMark ==
  \E link \in StoreUrls, username \in Usernames :
    /\ Called("favoriteMark", saveMetaData(subdata, link, FavoriteMark(username)),
              NoArgs)
    /\ UNCHANGED favorites

CallSaveMetaData ==
  \E i \in 1..Len(subdata), d \in ProbeObjects :
    LET res == saveMetaData(subdata, subdata[i]["url"], d)
    IN /\ Called("saveMetaData", res,
                 [ url |-> subdata[i]["url"], d |-> d, ret |-> res.ret ])
       /\ UNCHANGED favorites

CallSaveFavorites ==
  \E username \in Usernames, links \in FavoriteLists :
    \E failAt \in 0..Len(links) :
      LET res == saveFavorites(subdata, favorites, username, links, failAt)
      IN /\ Called("saveFavorites", res,
                   [ username |-> username, urls |-> Range(ValidLinks(links)),
                     invalid |-> (NULL \in Range(links)),
                     repeats |-> Cardinality(Range(ValidLinks(links)))
                                   # Len(ValidLinks(links)),
                     rejected |-> failAt \in 1..Len(ValidLinks(links)),
                     ret |-> res.ret ])
         /\ favorites' = res.fav

CallDeleteSubmission ==
  \E i \in 1..Len(subdata) :
    /\ Called("deleteSubmission", deleteSubmission(subdata, subdata[i]["url"]), NoArgs)
    /\ UNCHANGED favorites

CallSetContentSaved ==
  \E i \in 1..Len(subdata) :
    /\ Called("setContentSaved", setContentSaved(subdata, subdata[i]["content_url"]), NoArgs)
    /\ UNCHANGED favorites

CallSetContentNotSaved ==
  \E i \in 1..Len(subdata) :
    /\ Called("setContentNotSaved",
              setContentNotSaved(subdata, subdata[i]["content_url"]), NoArgs)
    /\ UNCHANGED favorites

CallSetContentMoved ==
  \E i \in 1..Len(subdata) :
    /\ Called("setContentMoved", setContentMoved(subdata, subdata[i]["content_name"]), NoArgs)
    /\ UNCHANGED favorites

CallSetContentMissing ==
  \E i \in 1..Len(subdata) :
    /\ Called("setContentMissing",
              setContentMissing(subdata, subdata[i]["content_name"]), NoArgs)
    /\ UNCHANGED favorites

CallSetThumbnailMissing ==
  \E i \in 1..Len(subdata) :
    /\ Truthy(subdata[i]["thumbnail_url"])
    /\ Called("setThumbnailMissing",
              setThumbnailMissing(subdata, subdata[i]["thumbnail_url"]), NoArgs)
    /\ UNCHANGED favorites

CallSetThumbnailSaved ==
  \E i \in 1..Len(subdata) :
    /\ Truthy(subdata[i]["thumbnail_url"])
    /\ Called("setThumbnailSaved",
              setThumbnailSaved(subdata, subdata[i]["url"], subdata[i]["thumbnail_url"],
                                SplitPop(subdata[i]["thumbnail_url"])), NoArgs)
    /\ UNCHANGED favorites

NextStore ==
  \/ CallSaveLinks
  \/ CallHarvestSave
  \/ CallFavoriteMark
  \/ CallSaveMetaData
  \/ CallSaveFavorites
  \/ CallDeleteSubmission
  \/ CallSetContentSaved
  \/ CallSetContentNotSaved
  \/ CallSetContentMoved
  \/ CallSetContentMissing
  \/ CallSetThumbnailMissing
  \/ CallSetThumbnailSaved

SpecStore == InitStore /\ [][NextStore]_vars

\* ------------------------------------------------- the download workers
\* maxRetries of download-content
maxRetries == 5

FileLocationSharedPart(j) == << j.username, "gallery", << "download.part" >> >>

\* the path join(ARTIST_DIR, username, subfolder, content_name)
FileLocation(j) == << j.username, j.subfolder, j.content_name >>

\* the path join(ARTIST_DIR, username, subfolder)
DownloadLocation(j) == << j.username, j.subfolder >>

\* The worker-side state as one record, so that the synchronous stretches of
\* the code (from one await to the next) compose as functions.
Local ==
  [ pc |-> pc, data |-> data, idx |-> idx, job |-> job,
    retryCount |-> retryCount, outcome |-> outcome, polls |-> polls,
    thumbnailsRunning |-> thumbnailsRunning, stopNow |-> stopNow,
    pendingMissing |-> pendingMissing ]

Commit(s) ==
  /\ pc' = s.pc
  /\ data' = s.data
  /\ idx' = s.idx
  /\ job' = s.job
  /\ retryCount' = s.retryCount
  /\ outcome' = s.outcome
  /\ polls' = s.polls
  /\ thumbnailsRunning' = s.thumbnailsRunning
  /\ stopNow' = s.stopNow
  /\ pendingMissing' = s.pendingMissing

\* a worker function returns
Return(s, w) ==
  LET t == [ s EXCEPT !.pc[w] = "done", !.data[w] = << >>, !.idx[w] = 0 ]
  IN IF w = "thumbnail" THEN [ t EXCEPT !.thumbnailsRunning = FALSE ] ELSE t

\* startContentDownloads() up to its await on the poll
StartContentDownloads(s) ==
  IF s.stopNow
  THEN Return(s, "content")
  ELSE [ s EXCEPT !.pc["content"] = "query", !.polls["content"] = @ + 1 ]

\* startThumbnailDownloads() up to its await on the poll
StartThumbnailDownloads(s) ==
  IF s.stopNow
  THEN Return(s, "thumbnail")
  ELSE [ s EXCEPT !.thumbnailsRunning = TRUE,
                  !.pc["thumbnail"] = "query", !.polls["thumbnail"] = @ + 1 ]

SpawnThumbnailsUnguarded(s) ==
  IF s.polls["thumbnail"] >= MaxPolls
  THEN s
  ELSE StartThumbnailDownloads(s)

\* if (!thumbnailsRunning) startThumbnailDownloads(); a thumbnail worker that
\* has made MaxPolls polls is not started again
SpawnThumbnails(s) ==
  IF s.thumbnailsRunning \/ s.polls["thumbnail"] >= MaxPolls
  THEN s
  ELSE StartThumbnailDownloads(s)

\* downloadSpecificContent / downloadThumbnail has settled, its locals are
\* gone: the loop body goes on to its waitFor
ItemDone(s, w) ==
  LET t == [ s EXCEPT !.pc[w] = "wait", !.job[w] = NoJob,
                      !.retryCount[w] = 0, !.outcome[w] = "none" ]
  IN IF w = "content" THEN SpawnThumbnails(t) ELSE t

HandleRejectionStopsOnAnyError(s, w, message) ==
  IF message = "<none>" THEN s
  ELSE [ s EXCEPT !.stopNow = TRUE ]

\* the .catch handler of downloadSpecificContent / downloadThumbnail; the
\* missing mark is called without await and runs later: by content_name for
\* the content worker, by the thumbnail's url for the thumbnail worker
HandleRejection(s, w, message) ==
  IF message = "<none>" THEN s
  ELSE IF message = "Site down"
  THEN [ s EXCEPT !.stopNow = TRUE ]
  ELSE IF message = "Not found"
  THEN [ s EXCEPT !.pendingMissing =
                     @ \cup { << w, IF w = "content" THEN s.job[w].content_name
                                                    ELSE s.job[w].content_url >> } ]
  ELSE s

\* the promise of downloadSetup rejects with `message`
Rejected(s, w, message) ==
  [ ItemDone(HandleRejection([ s EXCEPT !.outcome[w] = message ], w, message), w)
      EXCEPT !.outcome[w] = message ]

\* the promise of downloadSetup resolves: the .then handler issues the saved
\* mark
Resolved(s, w, how) == [ s EXCEPT !.outcome[w] = how, !.pc[w] = "then" ]

\* downloadSetup(job[w]) up to its await on urlExists
CallDownloadSetup(s, w) ==
  IF s.stopNow THEN Resolved(s, w, "cancelled")
  ELSE IF ~Truthy(s.job[w].username)
  THEN Rejected(s, w, "Username missing for download path")
  ELSE IF EndsWithDot(s.job[w].content_name) THEN Rejected(s, w, "<none>")
  ELSE [ s EXCEPT !.pc[w] = "probe" ]

\* row.account_name || row.username || ""
AccountOf(row) ==
  IF Truthy(row["account_name"]) THEN row["account_name"]
  ELSE IF Truthy(row["username"]) THEN row["username"]
  ELSE Blank

\* the subfolder downloadSpecificContent picks for a row
SubfolderOf(row) ==
  IF "is_favorite" \in DOMAIN row /\ row["is_favorite"] = 1 THEN "favorites"
  ELSE IF "is_scrap" \in DOMAIN row /\ row["is_scrap"] = 1 THEN "scraps"
  ELSE "gallery"

\* downloadSpecificContent(row) up to its first await
downloadSpecificContent(s, row) ==
  IF s.stopNow THEN ItemDone(s, "content")
  ELSE IF ~Truthy(AccountOf(row)) THEN ItemDone(s, "content")
  ELSE CallDownloadSetup(
         [ s EXCEPT !.job["content"] =
                       [ content_url |-> row["content_url"],
                         content_name |-> row["content_name"],
                         username |-> ReplaceTrailingDot(AccountOf(row)),
                         subfolder |-> SubfolderOf(row),
                         url |-> row["url"] ],
                    !.retryCount["content"] = 0 ],
         "content")

\* downloadThumbnail from the point where content_url is known
ThumbnailSetup(s, row, content_url) ==
  IF ~Truthy(content_url) THEN ItemDone(s, "thumbnail")
  ELSE CallDownloadSetup(
         [ s EXCEPT !.job["thumbnail"] =
                       [ content_url |-> content_url,
                         content_name |-> SplitPop(content_url),
                         username |-> ReplaceTrailingDot(row["account_name"]),
                         subfolder |-> "thumbnail",
                         url |-> row["url"] ],
                    !.retryCount["thumbnail"] = 0 ],
         "thumbnail")

\* downloadThumbnail(row) up to its first await
downloadThumbnail(s, row) ==
  IF s.stopNow THEN ItemDone(s, "thumbnail")
  ELSE IF ~Truthy(row["thumbnail_url"])
  THEN [ s EXCEPT !.pc["thumbnail"] = "html" ]
  ELSE ThumbnailSetup(s, row, row["thumbnail_url"])

\* the head of the while loop of a worker, entered with i = idx[w]
LoopHead(s, w) ==
  IF s.idx[w] >= Len(s.data[w]) THEN [ s EXCEPT !.pc[w] = "endwait" ]
  ELSE IF s.stopNow THEN Return(s, w)
  ELSE IF w = "content"
  THEN downloadSpecificContent(s, s.data[w][s.idx[w] + 1])
  ELSE downloadThumbnail(s, s.data[w][s.idx[w] + 1])

\* what urlExists / isSiteActive can answer
ProbeAnswers == IF site = "outage" THEN { FALSE } ELSE BOOLEAN

\* what the preview image's src can be on a page loaded by getHTML:
\* none, a file name, a name that ends with a dot
PreviewSrcs ==
  { Blank, << "/", "t", "/", "song.jpg" >>, << "/", "t", "/", "song", "." >> }

\* startAllDownloads(): both workers run up to their first await
StartAllDownloads ==
  /\ \A w \in Workers : pc[w] = "idle"
  /\ Commit(StartThumbnailDownloads(StartContentDownloads(Local)))
  /\ UNCHANGED << storeVars, fsVars, streamed, site, reconcilerVars, callVars, restVars >>

\* the poll of a worker returns
QueryReturn(w) ==
  /\ pc[w] = "query"
  /\ LET d == IF w = "content" THEN getAllUnsavedContent(subdata)
              ELSE getAllUnsavedThumbnails(subdata)
     IN Commit(IF d = << >> THEN Return(Local, w)
               ELSE LoopHead([ Local EXCEPT !.data[w] = d, !.idx[w] = 0 ], w))
  /\ UNCHANGED << storeVars, fsVars, streamed, site, reconcilerVars, callVars, restVars >>

\* getHTML(contentUrl) of downloadThumbnail settles: it fails, or it loads a
\* page
HtmlReturn(w) ==
  /\ pc[w] = "html"
  /\ \/ Commit(ItemDone(Local, w))
     \/ \E src \in PreviewSrcs :
          Commit(ThumbnailSetup(Local, data[w][idx[w] + 1],
                                IF Truthy(src) THEN << "https:" >> \o src ELSE Blank))
  /\ UNCHANGED << storeVars, fsVars, streamed, site, reconcilerVars, callVars, restVars >>

\* urlExists(content_url) answers.  On true the directory is ensured and the
\* write stream opens the file (nothing the workers read changes during the
\* await on fs.ensureDir); on false isSiteActive() is asked.
ProbeReturn(w) ==
  /\ pc[w] = "probe"
  /\ \E exists \in ProbeAnswers :
       IF exists
       THEN /\ dirs' = dirs \cup { DownloadLocation(job[w]) }
            /\ files' = files \cup { FileLocation(job[w]) }
            /\ Commit([ Local EXCEPT !.pc[w] = "streaming" ])
       ELSE /\ Commit([ Local EXCEPT !.pc[w] = "reach" ])
            /\ UNCHANGED fsVars
  /\ UNCHANGED << storeVars, streamed, site, reconcilerVars, callVars, restVars >>

StreamEndKeepsPartial(w) ==
  /\ pc[w] = "streaming"
  /\ \E finished \in ProbeAnswers :
       IF finished
       THEN /\ streamed' = streamed \cup { job[w].content_url }
            /\ Commit(Resolved(Local, w, "success"))
       ELSE /\ Commit(IF retryCount[w] < maxRetries
                      THEN CallDownloadSetup([ Local EXCEPT !.retryCount[w] = @ + 1 ], w)
                      ELSE Resolved(Local, w, "exhausted"))
            /\ UNCHANGED streamed
  /\ UNCHANGED << storeVars, fsVars, dirs, site, reconcilerVars, callVars, restVars >>

\* the stream finishes, or it fails (transport or disk error): the catch
\* removes the file and retries while retryCount < maxRetries
StreamEnd(w) ==
  /\ pc[w] = "streaming"
  /\ \E finished \in ProbeAnswers :
       IF finished
       THEN /\ streamed' = streamed \cup { job[w].content_url }
            /\ Commit(Resolved(Local, w, "success"))
            /\ UNCHANGED files
       ELSE /\ files' = files \ { FileLocation(job[w]) }
            /\ Commit(IF retryCount[w] < maxRetries
                      THEN CallDownloadSetup([ Local EXCEPT !.retryCount[w] = @ + 1 ], w)
                      ELSE Resolved(Local, w, "exhausted"))
            /\ UNCHANGED streamed
  /\ UNCHANGED << storeVars, dirs, site, reconcilerVars, callVars, restVars >>

\* isSiteActive() answers
ReachReturn(w) ==
  /\ pc[w] = "reach"
  /\ \E active \in ProbeAnswers :
       Commit(Rejected(Local, w, IF active THEN "Not found" ELSE "Site down"))
  /\ UNCHANGED << storeVars, fsVars, streamed, site, reconcilerVars, callVars, restVars >>

\* the saved mark issued by the .then handler has run
ThenReturn(w) ==
  /\ pc[w] = "then"
  /\ subdata' =
       IF w = "content"
       THEN setContentSaved(subdata, job[w].content_url).sub
       ELSE setThumbnailSaved(subdata, job[w].url, job[w].content_url,
                              job[w].content_name).sub
  /\ Commit(ItemDone(Local, w))
  /\ UNCHANGED << favorites, fsVars, streamed, site, reconcilerVars, callVars, restVars >>

\* the waitFor at the end of the loop body is over: i++ and the next turn.
\* The wait lasts a second or more: a mark the worker issued before it has
\* run by then.
WaitDone(w) ==
  /\ pc[w] = "wait"
  /\ \A m \in pendingMissing : m[1] # w
  /\ Commit(LoopHead([ Local EXCEPT !.idx[w] = @ + 1, !.outcome[w] = "none" ], w))
  /\ UNCHANGED << storeVars, fsVars, streamed, site, reconcilerVars, callVars, restVars >>

\* the waitFor after the loop is over: the worker calls itself
EndWaitDone(w) ==
  /\ pc[w] = "endwait"
  /\ polls[w] < MaxPolls
  /\ Commit(IF w = "content" THEN StartContentDownloads(Local)
            ELSE StartThumbnailDownloads(Local))
  /\ UNCHANGED << storeVars, fsVars, streamed, site, reconcilerVars, callVars, restVars >>

\* a missing mark that was called without await runs
RunMissingMark ==
  \E m \in pendingMissing :
    /\ subdata' = IF m[1] = "content"
                  THEN setContentMissing(subdata, m[2]).sub
                  ELSE setThumbnailMissing(subdata, m[2]).sub
    /\ pendingMissing' = pendingMissing \ { m }
    /\ UNCHANGED << favorites, fsVars, stopNow, thumbnailsRunning, pc, data, idx,
                    job, retryCount, outcome, streamed, polls, site,
                    reconcilerVars, callVars, restVars >>

\* the stores the workers start on: harvested records of one creator, and
\* the store with one picture, which has no thumbnail to fetch
ItemLists ==
  { SubSeq(l, 1, n) : n \in 1..MaxItems, l \in { << UC, UD, UB >>, << UB, UA, UC >> } }
    \cup { << UA >> }

InitDownload ==
  /\ \E l \in ItemLists : subdata = Harvested(l, Alice)
  /\ favorites = << >>
  /\ files = {}
  /\ dirs = {}
  /\ stopNow = FALSE
  /\ thumbnailsRunning = FALSE
  /\ pc = [ w \in Workers |-> "idle" ]
  /\ data = [ w \in Workers |-> << >> ]
  /\ idx = [ w \in Workers |-> 0 ]
  /\ job = [ w \in Workers |-> NoJob ]
  /\ retryCount = [ w \in Workers |-> 0 ]
  /\ outcome = [ w \in Workers |-> "none" ]
  /\ pendingMissing = {}
  /\ streamed = {}
  /\ polls = [ w \in Workers |-> 0 ]
  /\ site \in { "up", "outage" }
  /\ ReconcilerAtRest
  /\ NoCalls
  /\ stage = "download"
  /\ ScrapersAtRest
  /\ SchemaAtRest

NextDownload ==
  \/ StartAllDownloads
  \/ \E w \in Workers : QueryReturn(w)
  \/ \E w \in Workers : HtmlReturn(w)
  \/ \E w \in Workers : ProbeReturn(w)
  \/ \E w \in Workers : StreamEnd(w)
  \/ \E w \in Workers : ReachReturn(w)
  \/ \E w \in Workers : ThenReturn(w)
  \/ \E w \in Workers : WaitDone(w)
  \/ \E w \in Workers : EndWaitDone(w)
  \/ RunMissingMark

SpecDownload == InitDownload /\ [][NextDownload]_vars

\* The workers with progress.  A poll past the MaxPolls counted ones is made
\* like the counted ones and not counted, so that a worker that polls for
\* ever does so in the model.
EndWaitDoneUncounted(w) ==
  /\ pc[w] = "endwait"
  /\ polls[w] >= MaxPolls
  /\ Commit([ (IF w = "content" THEN StartContentDownloads(Local)
               ELSE StartThumbnailDownloads(Local)) EXCEPT !.polls = polls ])
  /\ UNCHANGED << storeVars, fsVars, streamed, site, reconcilerVars, callVars, restVars >>

\* a missing mark that worker w called runs
RunMissingMarkOf(w) ==
  RunMissingMark /\ \E m \in pendingMissing : m[1] = w /\ m \notin pendingMissing'

\* the steps of worker w
WorkerStep(w) ==
  \/ QueryReturn(w)
  \/ HtmlReturn(w)
  \/ ProbeReturn(w)
  \/ StreamEnd(w)
  \/ ReachReturn(w)
  \/ ThenReturn(w)
  \/ WaitDone(w)
  \/ EndWaitDone(w)
  \/ EndWaitDoneUncounted(w)

InitDownloadFair ==
  /\ InitDownload
  /\ site = "up"
  /\ subdata \in { Harvested(<< UC >>, Alice), Harvested(<< UB >>, Alice) }

NextDownloadFair ==
  \/ StartAllDownloads
  \/ \E w \in Workers : QueryReturn(w)
  \/ \E w \in Workers : HtmlReturn(w)
  \/ \E w \in Workers : ProbeReturn(w)
  \/ \E w \in Workers : StreamEnd(w)
  \/ \E w \in Workers : ReachReturn(w)
  \/ \E w \in Workers : ThenReturn(w)
  \/ \E w \in Workers : WaitDone(w)
  \/ \E w \in Workers : EndWaitDone(w)
  \/ \E w \in Workers : EndWaitDoneUncounted(w)
  \/ RunMissingMark

\* Every await of a worker settles: the requests have a response timeout,
\* the store calls return, the timers fire; every store call made without
\* await runs.
SpecDownloadFair ==
  /\ InitDownloadFair
  /\ [][NextDownloadFair]_vars
  /\ WF_vars(StartAllDownloads)
  /\ \A w \in Workers : WF_vars(WorkerStep(w))
  /\ \A w \in Workers : WF_vars(RunMissingMarkOf(w))

\* The workers on stores that hold scraps and favorites: the links of a
\* scraps walk (saveLinks with isScraps), the links of a favorites walk
\* (marked as favorites of the account walked), and gallery links, harvested;
\* and a store where the files of two creators have the same name.
FlaggedStores ==
  { Harvested(<< UC, UB >>, Alice),
    Harvested(<< UA, UD >>, Alice),
    HarvestedFrom(saveLinks(<< >>, << UC, UB >>, TRUE, Alice).sub, 2),
    HarvestedFrom(MarkFavorites(Discovered(<< UC, UB >>, Alice), Alice, << UC, UB >>, 2), 2) }

InitDestinations ==
  /\ subdata \in FlaggedStores
  /\ favorites = << >>
  /\ files = {}
  /\ dirs = {}
  /\ WorkersAtRest
  /\ ReconcilerAtRest
  /\ NoCalls
  /\ stage = "download"
  /\ ScrapersAtRest
  /\ SchemaAtRest

SpecDestinations == InitDestinations /\ [][NextDownload]_vars

\* ---------------------------------------------------------- the reconciler
\* join(ARTIST_DIR, content_name): where the flat layout kept a file
LegacyLocation(row) == << row["content_name"] >>

\* join(ARTIST_DIR, account_name, 'gallery')
GalleryDir(row) == << row["account_name"], "gallery" >>

\* join(ARTIST_DIR, account_name, 'gallery', content_name)
GalleryLocation(row) == << row["account_name"], "gallery", row["content_name"] >>

\* fs.move(src, dest) without overwrite: it moves the file when src exists and
\* dest does not, and fails otherwise
MoveSucceeds(fileSet, src, dest) == src \in fileSet /\ dest \notin fileSet

\* the .then of fs.move in reorganizeFiles, written without the moved mark
MoveSucceededNoMark(tbl, content_name) == [ ok |-> TRUE, sub |-> tbl ]

\* the .then of fs.move in reorganizeFiles: db.setContentMoved(content_name)
MoveSucceeded(tbl, content_name) == setContentMoved(tbl, content_name)

\* The while loop of reorganizeFiles over `content`, entered with index i:
\* it ends, or it returns on stop.now, or getPromise(i) ensures the directory
\* and issues the move.
ReorgLoop(content, i) ==
  /\ ri' = i
  /\ IF i >= Len(content) \/ stopNow
     THEN rpc' = "idle" /\ UNCHANGED dirs
     ELSE /\ dirs' = dirs \cup { GalleryDir(content[i + 1]) }
          /\ rpc' = "move"

\* reorganizeFiles() is called, once the run before it has returned
ReorgStart ==
  /\ rpc = "idle"
  /\ run < MaxRuns
  /\ run' = run + 1
  /\ rpc' = "query"
  /\ UNCHANGED << storeVars, fsVars, workerVars, rContent, ri, callVars, restVars >>

\* db.getAllUnmovedContentData() returns
ReorgQueryReturn ==
  /\ rpc = "query"
  /\ rContent' = getAllUnmovedContentData(subdata)
  /\ ReorgLoop(getAllUnmovedContentData(subdata), 0)
  /\ UNCHANGED << storeVars, files, workerVars, run, callVars, restVars >>

\* fs.move settles: on success the moved mark is issued; on failure it is
\* issued if the destination exists, else a warning is logged and the loop
\* goes on
ReorgMoveReturn ==
  /\ rpc = "move"
  /\ LET row == rContent[ri + 1]
     IN IF MoveSucceeds(files, LegacyLocation(row), GalleryLocation(row))
        THEN /\ files' = (files \ { LegacyLocation(row) }) \cup { GalleryLocation(row) }
             /\ rpc' = "thenMark"
             /\ UNCHANGED << ri, dirs >>
        ELSE IF GalleryLocation(row) \in files
        THEN /\ rpc' = "catchMark"
             /\ UNCHANGED << ri, files, dirs >>
        ELSE /\ ReorgLoop(rContent, ri + 1)
             /\ UNCHANGED files
  /\ UNCHANGED << storeVars, workerVars, rContent, run, callVars, restVars >>

\* the moved mark issued by the .then or by the .catch has run
ReorgMarkReturn ==
  /\ rpc \in { "thenMark", "catchMark" }
  /\ subdata' =
       IF rpc = "thenMark"
       THEN MoveSucceeded(subdata, rContent[ri + 1]["content_name"]).sub
       ELSE setContentMoved(subdata, rContent[ri + 1]["content_name"]).sub
  /\ ReorgLoop(rContent, ri + 1)
  /\ UNCHANGED << favorites, files, workerVars, rContent, run, callVars, restVars >>

\* Stores left by a version that kept every file flat under ARTIST_DIR:
\* harvested records of which up to MaxLegacy are saved and not moved.
LegacyStores ==
  { [ i \in 1..Len(tbl) |->
        IF i \in saved THEN [ tbl[i] EXCEPT !["is_content_saved"] = 1 ] ELSE tbl[i] ] :
      tbl \in { Harvested(<< UA, UD, UB >>, Alice), Harvested(<< UB, UC, UD >>, Alice) },
      saved \in { S \in SUBSET (1..3) : Cardinality(S) \in 1..MaxLegacy } }

InitReconcile ==
  /\ subdata \in LegacyStores
  /\ favorites = << >>
  /\ files \in SUBSET ( { LegacyLocation(subdata[i]) : i \in 1..Len(subdata) }
                        \cup { GalleryLocation(subdata[i]) : i \in 1..Len(subdata) } )
  /\ dirs = { << f[1], f[2] >> : f \in { g \in files : Len(g) = 3 } }
  /\ WorkersAtRest
  /\ ReconcilerAtRest
  /\ NoCalls
  /\ stage = "reconcile"
  /\ ScrapersAtRest
  /\ SchemaAtRest

NextReconcile ==
  \/ ReorgStart
  \/ ReorgQueryReturn
  \/ ReorgMoveReturn
  \/ ReorgMarkReturn

SpecReconcile == InitReconcile /\ [][NextReconcile]_vars

\* -------------------------------------------------------------- the walker
\* maxRetries of scrape-data
maxRetriesScrape == 6

BackoffMsFlat(attempt) == 30 * 1000

\* the length of a retry wait, waitFor(30 * retryCount * 1000), after the
\* increment of retryCount.  waitMs of the
\* walker and of the harvester records it for the retry waits only; the
\* waits between pages and items are random and are left at 0.
BackoffMs(attempt) == 30 * attempt * 1000

\* join(downloadDir, ...) in isSubmissionProcessed: scrape-data declares no
\* downloadDir, so evaluating it throws a ReferenceError, which the inner
\* catch logs.  FileOnDisk is the value the disk check contributes: none.
FileOnDisk(fileSet, username, content_name) == FALSE

\* isSubmissionProcessed(submissionUrl, username)
isSubmissionProcessed(tbl, fileSet, submissionUrl, username) ==
  IF ~Truthy(submissionUrl) THEN FALSE
  ELSE IF SubmissionOwnerRows(tbl, submissionUrl) = {} THEN FALSE
  ELSE LET first == CHOOSE i \in SubmissionOwnerRows(tbl, submissionUrl) :
                      \A j \in SubmissionOwnerRows(tbl, submissionUrl) : i <= j
           owner == IF Truthy(tbl[first]["username"]) THEN tbl[first]["username"]
                    ELSE tbl[first]["account_name"]
           matching == { i \in AllSubmissionsForUser(tbl, owner) :
                           \/ tbl[i]["url"] = submissionUrl
                           \/ tbl[i]["content_url"] = submissionUrl }
       IN IF matching = {} THEN FALSE
          ELSE \E i \in matching :
                 /\ \A j \in matching : i <= j
                 /\ Truthy(tbl[i]["content_name"]) /\ Truthy(username)
                 /\ FileOnDisk(fileSet, username, tbl[i]["content_name"])

\* the links of page n of the listing being walked: past its last page the
\* listing shows no links
PageAt(gallery, n) == IF n \in 1..Len(gallery) THEN gallery[n] ELSE << >>

\* the code after the while loop of getSubmissionLinks: the report is logged
\* unless stop.now is set
WalkFinish(w, stop) ==
  IF stop THEN [ w EXCEPT !.pc = "done" ]
  ELSE [ w EXCEPT !.pc = "done",
                  !.report = [ logged |-> TRUE, found |-> w.currLinks,
                               new |-> w.newLinks,
                               skipped |-> w.currLinks - w.newLinks ] ]

WalkLoopSkipsFailedPage(w, stop) ==
  IF stop THEN WalkFinish(w, stop)
  ELSE [ w EXCEPT !.pc = "fetch",
                  !.currPageCount = IF w.retryCount > 0 THEN @ + 1 ELSE @ ]

\* while (!stopLoop && !stop.now)
WalkLoop(w, stop) ==
  IF stop THEN WalkFinish(w, stop) ELSE [ w EXCEPT !.pc = "fetch" ]

WalkNextPageIgnoresCursor(w, stop) ==
  [ w EXCEPT !.currPageCount = @ + 1, !.filteredLinks = << >>, !.pc = "wait" ]

\* currPageCount++, the next-page cursor of a favorites listing, the wait
WalkNextPage(w, stop) ==
  LET n == [ w EXCEPT !.currPageCount = @ + 1, !.filteredLinks = << >> ]
  IN IF w.isFavorites /\ w.currPageCount >= Len(w.gallery)
     THEN WalkFinish(n, stop)
     ELSE [ n EXCEPT !.pc = "wait" ]

\* the favorite marks the walker writes link by link, each in a try / catch
RECURSIVE MarkFavoriteLinks(_, _, _)
MarkFavoriteLinks(tbl, links, username) ==
  IF links = << >> THEN tbl
  ELSE MarkFavoriteLinks(saveMetaData(tbl, Head(links), FavoriteMark(username)).sub,
                         Tail(links), username)

\* getSubmissionLinks({ url, username, isScraps, isFavorites }) is called:
\* it ensures its base directory and enters the loop
WalkStart ==
  /\ walk.pc = "idle"
  /\ dirs' = dirs \cup
       { << "fa_gallery_downloader", walk.username,
            IF walk.isFavorites THEN "favorites"
            ELSE IF walk.isScraps THEN "scraps" ELSE "gallery" >> }
  /\ walk' = WalkLoop(walk, stopNow)
  /\ UNCHANGED << storeVars, files, workerVars, reconcilerVars, callVars, stage,
                  harvest, prune, schemaVars >>

\* getHTML(pageUrl) settles.  A failure is retried after a wait until
\* retryCount reaches maxRetries, where stop.now is set and the walk returns.
\* A page is filtered link by link and its new links are handed to saveLinks.
WalkFetchReturn ==
  /\ walk.pc = "fetch"
  /\ \E loaded \in BOOLEAN :
       IF ~loaded
       THEN IF walk.retryCount + 1 < maxRetriesScrape
            THEN /\ walk' = [ walk EXCEPT !.pc = "backoff", !.retryCount = @ + 1,
                                          !.waitMs = BackoffMs(walk.retryCount + 1) ]
                 /\ UNCHANGED stopNow
            ELSE /\ walk' = [ walk EXCEPT !.pc = "done", !.retryCount = @ + 1 ]
                 /\ stopNow' = TRUE
       ELSE LET scrapedLinks == PageAt(walk.gallery, walk.currPageCount)
                filteredLinks ==
                  SelectSeq(scrapedLinks,
                            LAMBDA link : ~isSubmissionProcessed(subdata, files, link,
                                                                 walk.username))
                w == [ walk EXCEPT !.retryCount = 0,
                                   !.newLinks = @ + Len(filteredLinks) ]
            IN /\ walk' = IF scrapedLinks = << >> THEN WalkFinish(w, stopNow)
                          ELSE IF filteredLinks = << >> THEN WalkNextPage(w, stopNow)
                          ELSE [ w EXCEPT !.pc = "save",
                                          !.filteredLinks = filteredLinks ]
               /\ UNCHANGED stopNow
  /\ UNCHANGED << storeVars, fsVars, thumbnailsRunning, pc, data, idx, job,
                  retryCount, outcome, pendingMissing, streamed, polls, site,
                  reconcilerVars, callVars, stage, harvest, prune, schemaVars >>

\* db.saveLinks(filteredLinks, isScraps, username) has run
WalkSaveReturn ==
  /\ walk.pc = "save"
  /\ LET res == saveLinks(subdata, walk.filteredLinks, walk.isScraps, walk.username)
         w == [ walk EXCEPT !.passed = @ \cup Range(walk.filteredLinks) ]
     IN /\ subdata' = res.sub
        /\ walk' = IF ~res.ok \/ stopNow THEN WalkFinish(w, stopNow)
                   ELSE IF w.isFavorites /\ Truthy(w.username)
                   THEN [ w EXCEPT !.pc = "favorites" ]
                   ELSE WalkNextPage([ w EXCEPT !.currLinks = @ + w.newLinks ], stopNow)
  /\ UNCHANGED << favorites, fsVars, workerVars, reconcilerVars, callVars, stage,
                  harvest, prune, schemaVars >>

\* db.saveFavorites(username, filteredLinks) has run: when it rejects,
\* getSubmissionLinks rejects; else every link is marked as a favorite of
\* username (the marks are awaited one by one)
WalkFavoritesReturn ==
  /\ walk.pc = "favorites"
  /\ LET res == saveFavorites(subdata, favorites, walk.username,
                              walk.filteredLinks, 0)
     IN /\ favorites' = res.fav
        /\ IF res.ok
           THEN /\ subdata' = MarkFavoriteLinks(res.sub, walk.filteredLinks,
                                                walk.username)
                /\ walk' = WalkNextPage([ walk EXCEPT !.currLinks = @ + walk.newLinks ],
                                        stopNow)
           ELSE /\ subdata' = res.sub
                /\ walk' = [ walk EXCEPT !.pc = "failed" ]
  /\ UNCHANGED << fsVars, workerVars, reconcilerVars, callVars, stage,
                  harvest, prune, schemaVars >>

\* a waitFor of the walker is over: back to the top of the loop
WalkWaitDone ==
  /\ walk.pc \in { "wait", "backoff" }
  /\ walk' = WalkLoop([ walk EXCEPT !.waitMs = 0 ], stopNow)
  /\ UNCHANGED << storeVars, fsVars, workerVars, reconcilerVars, callVars, stage,
                  harvest, prune, schemaVars >>

NextWalk ==
  \/ WalkStart
  \/ WalkFetchReturn
  \/ WalkSaveReturn
  \/ WalkFavoritesReturn
  \/ WalkWaitDone

\* ----------------------------------------------------------- the harvester
\* the harvester retries while retryCount < maxRetries / 2
HarvestRetryLimit == maxRetriesScrape \div 2

NoPage == [ title |-> NULL, username |-> NULL, href |-> NULL, src |-> NULL ]

\* a comment as scrapeComments builds it from a comment container
Comment(id, submission_id, desc, date) ==
  [ id |-> id, submission_id |-> submission_id, width |-> << "width" >>,
    username |-> << "carol", "_" >>,
    account_name |-> StripUnderscores(<< "carol", "_" >>),
    desc |-> desc, subtitle |-> << "subtitle" >>, date |-> date ]

\* the comment lists a detail page can show for a submission: none, one
\* comment, the same comment edited, two comments
CommentsOnPage(submission_id) ==
  { << >>,
    << Comment(<< "cid:1" >>, submission_id, << "first" >>, << "mon" >>) >>,
    << Comment(<< "cid:1" >>, submission_id, << "edited" >>, << "tue" >>) >>,
    << Comment(<< "cid:1" >>, submission_id, << "first" >>, << "mon" >>),
       Comment(<< "cid:2" >>, submission_id, << "second" >>, << "tue" >>) >> }

\* what getHTML(links[index].url) can bring the harvester: the request
\* fails, the page says the submission is not in the database, the page has
\* no submission title for another reason, or the detail page loads
FetchResults == { "failed", "deleted", "untitled", "ok" }

PageLacksTitle(result) == result \in { "deleted", "untitled" }

\* the page's section body holds 'The submission you are trying to find is
\* not in our database.'
PageReportsDeleted(result) == result = "deleted"

HarvestLoopUnchecked(h) ==
  IF h.index < Len(h.links)
  THEN [ h EXCEPT !.pc = "fetch" ]
  ELSE [ h EXCEPT !.pc = "done" ]

\* the while loop of scrapeSubmissionInfo, entered with locals h
HarvestLoop(h) ==
  IF h.index < Len(h.links) /\ ~stopNow
  THEN [ h EXCEPT !.pc = "fetch" ]
  ELSE [ h EXCEPT !.pc = "done" ]

\* index++; if (index % 2) await waitFor(...)
HarvestAdvance(h) ==
  LET n == [ h EXCEPT !.index = @ + 1, !.page = NoPage ]
  IN IF n.index % 2 = 1 THEN [ n EXCEPT !.pc = "wait" ] ELSE HarvestLoop(n)

\* scrapeSubmissionInfo({ downloadComments }) is called
HarvestStart ==
  /\ harvest.pc = "idle"
  /\ \E downloadComments \in BOOLEAN :
       harvest' = [ harvest EXCEPT !.pc = "query",
                                   !.downloadComments = downloadComments ]
  /\ UNCHANGED << storeVars, fsVars, workerVars, reconcilerVars, callVars, stage,
                  walk, prune, schemaVars >>

\* db.getSubmissionLinks() returns
HarvestQueryReturn ==
  /\ harvest.pc = "query"
  /\ LET links == dbGetSubmissionLinks(subdata)
     IN harvest' = IF links = << >> \/ stopNow
                   THEN [ harvest EXCEPT !.pc = "done", !.links = links ]
                   ELSE HarvestLoop([ harvest EXCEPT !.links = links, !.index = 0,
                                                     !.retryCount = 0 ])
  /\ UNCHANGED << storeVars, fsVars, workerVars, reconcilerVars, callVars, stage,
                  walk, prune, schemaVars >>

\* getHTML(links[index].url) settles.  A page that reports the submission
\* deleted makes the harvester call db.deleteSubmission; a page without a
\* submission title counts as a failed fetch: retry, then skip the link.
HarvestFetchReturn ==
  /\ harvest.pc = "fetch"
  /\ LET url == harvest.links[harvest.index + 1]["url"]
     IN \E result \in FetchResults :
          IF result = "ok"
          THEN /\ \E page \in PageVersions(url) :
                    harvest' = [ harvest EXCEPT !.pc = "save", !.page = page,
                                                !.seen = result, !.retryCount = 0 ]
               /\ UNCHANGED subdata
          ELSE /\ subdata' = IF PageReportsDeleted(result)
                             THEN deleteSubmission(subdata, url).sub
                             ELSE subdata
               /\ harvest' =
                    IF harvest.retryCount + 1 < HarvestRetryLimit
                    THEN [ harvest EXCEPT !.pc = "backoff", !.seen = result,
                                          !.retryCount = @ + 1,
                                          !.waitMs = BackoffMs(harvest.retryCount + 1) ]
                    ELSE [ harvest EXCEPT !.pc = "wait", !.seen = result,
                                          !.retryCount = 0, !.index = @ + 1 ]
  /\ UNCHANGED << favorites, fsVars, workerVars, reconcilerVars, callVars, stage,
                  walk, prune, schemaVars >>

\* db.saveMetaData(links[index].url, data) has run.  When it rejects,
\* scrapeSubmissionInfo rejects; else the comments are saved if asked for
\* (scrapeComments returns at once on stop.now or when the page has none).
HarvestSaveReturn ==
  /\ harvest.pc = "save"
  /\ LET url == harvest.links[harvest.index + 1]["url"]
         d == HarvestData(url, harvest.page)
         res == saveMetaData(subdata, url, d)
     IN /\ subdata' = res.sub
        /\ \E comments \in CommentsOnPage(d.set["id"]) :
             harvest' =
               IF ~res.ok THEN [ harvest EXCEPT !.pc = "failed" ]
               ELSE IF harvest.downloadComments /\ ~stopNow /\ comments # << >>
               THEN [ harvest EXCEPT !.pc = "comments", !.comments = comments ]
               ELSE HarvestAdvance(harvest)
  /\ UNCHANGED << favorites, fsVars, workerVars, reconcilerVars, callVars, stage,
                  walk, prune, schemaVars >>

\* db.saveComments(comments) has run
HarvestCommentsReturn ==
  /\ harvest.pc = "comments"
  /\ LET res == saveComments(commentdata, harvest.comments)
     IN /\ commentdata' = res.tbl
        /\ harvest' = IF res.ok
                      THEN HarvestAdvance([ harvest EXCEPT !.comments = << >> ])
                      ELSE [ harvest EXCEPT !.pc = "failed" ]
  /\ UNCHANGED << storeVars, fsVars, workerVars, reconcilerVars, callVars, stage,
                  walk, prune, master, txn >>

\* a waitFor of the harvester is over: back to the top of the loop
HarvestWaitDone ==
  /\ harvest.pc \in { "wait", "backoff" }
  /\ harvest' = HarvestLoop([ harvest EXCEPT !.waitMs = 0 ])
  /\ UNCHANGED << storeVars, fsVars, workerVars, reconcilerVars, callVars, stage,
                  walk, prune, schemaVars >>

NextHarvest ==
  \/ HarvestStart
  \/ HarvestQueryReturn
  \/ HarvestFetchReturn
  \/ HarvestSaveReturn
  \/ HarvestCommentsReturn
  \/ HarvestWaitDone

\* ------------------------------------------------------ deleteInvalidFiles
\* the for loop of deleteInvalidFiles, entered with index i
PruneLoop(p) ==
  IF p.i < Len(p.brokenFiles) THEN [ p EXCEPT !.pc = "remove" ]
  ELSE [ p EXCEPT !.pc = "done" ]

\* deleteInvalidFiles() is called
PruneStart ==
  /\ prune.pc = "idle"
  /\ prune' = [ prune EXCEPT !.pc = "query" ]
  /\ UNCHANGED << storeVars, fsVars, workerVars, reconcilerVars, callVars, stage,
                  walk, harvest, schemaVars >>

\* db.getAllInvalidFiles() returns
PruneQueryReturn ==
  /\ prune.pc = "query"
  /\ prune' = PruneLoop([ prune EXCEPT !.brokenFiles = getAllInvalidFiles(subdata),
                                       !.i = 0 ])
  /\ UNCHANGED << storeVars, fsVars, workerVars, reconcilerVars, callVars, stage,
                  walk, harvest, schemaVars >>

\* fs.remove(location) returns
PruneRemoveReturn ==
  /\ prune.pc = "remove"
  /\ files' = files \ { GalleryLocation(prune.brokenFiles[prune.i + 1]) }
  /\ prune' = [ prune EXCEPT !.pc = "mark" ]
  /\ UNCHANGED << storeVars, dirs, workerVars, reconcilerVars, callVars, stage,
                  walk, harvest, schemaVars >>

\* db.setContentNotSaved(content_url) has run
PruneMarkReturn ==
  /\ prune.pc = "mark"
  /\ subdata' = setContentNotSaved(subdata,
                                   prune.brokenFiles[prune.i + 1]["content_url"]).sub
  /\ prune' = PruneLoop([ prune EXCEPT !.i = @ + 1 ])
  /\ UNCHANGED << favorites, fsVars, workerVars, reconcilerVars, callVars, stage,
                  walk, harvest, schemaVars >>

NextPrune ==
  \/ PruneStart
  \/ PruneQueryReturn
  \/ PruneRemoveReturn
  \/ PruneMarkReturn

\* ------------------------------------------------------------ the pipeline
\* Walker, harvester, download workers, reconciler and prune run one after
\* the other.  A behaviour of SpecPipeline runs one of them, from a store and
\* a disk that the components before it can leave behind.

\* the listing link of submission n
Link(n) == << "fa", "view/", ToString(n), "/" >>

\* the store after a favorites walk of `username` over `links`
FavoritesWalked(links, username) ==
  LET res == saveFavorites(Discovered(links, username), << >>, username, links, 0)
  IN [ sub |-> MarkFavoriteLinks(res.sub, links, username), fav |-> res.fav ]

\* every record of tbl marked saved, as the content worker marks it
RECURSIVE AllSaved(_, _)
AllSaved(tbl, k) ==
  IF k = 0 THEN tbl
  ELSE setContentSaved(AllSaved(tbl, k - 1), tbl[k]["content_url"]).sub

\* what a walk can find when it starts: nothing, discovered links, harvested
\* records, downloaded records with their files, a favorites listing walked
\* before
WalkStores ==
  { [ sub |-> << >>, fav |-> << >>, files |-> {} ],
    [ sub |-> Discovered(<< UA >>, Alice), fav |-> << >>, files |-> {} ],
    [ sub |-> Harvested(<< UA, UB >>, Alice), fav |-> << >>, files |-> {} ],
    [ sub |-> AllSaved(Harvested(<< UA, UB >>, Alice), 2), fav |-> << >>,
      files |-> { << Alice, "gallery", << "pic.png" >> >>,
                  << Alice, "gallery", << "tale.txt" >> >> } ],
    [ sub |-> FavoritesWalked(<< UA >>, Alice).sub,
      fav |-> FavoritesWalked(<< UA >>, Alice).fav, files |-> {} ] }

\* the listings walked: one page, or two
Galleries ==
  { << l >> : l \in LinkLists } \cup { << l, << u >> >> : l \in LinkLists, u \in StoreUrls }

\* a listing whose first page has 20 links, walked on a store that knows 5
TwentyLinks == [ n \in 1..20 |-> Link(n) ]

WalkOf(username, isScraps, isFavorites, gallery) ==
  [ NoWalk EXCEPT !.username = username, !.isScraps = isScraps,
                  !.isFavorites = isFavorites, !.gallery = gallery ]

InitWalkStage ==
  /\ stage = "walk"
  /\ \/ \E st \in WalkStores, username \in Usernames, gallery \in Galleries,
          mode \in { "gallery", "scraps", "favorites" } :
          /\ subdata = st.sub /\ favorites = st.fav /\ files = st.files
          /\ walk = WalkOf(username, mode = "scraps", mode = "favorites", gallery)
     \/ /\ subdata = Discovered(SubSeq(TwentyLinks, 1, 5), Alice)
        /\ favorites = << >> /\ files = {}
        /\ walk = WalkOf(Alice, FALSE, FALSE, << TwentyLinks >>)
  /\ dirs = { << f[1], f[2] >> : f \in files }
  /\ WorkersAtRest /\ ReconcilerAtRest /\ NoCalls
  /\ harvest = NoHarvest /\ prune = NoPrune
  /\ SchemaAtRest

\* the stores the harvester starts on: links the walker persisted, some of
\* them harvested before
HarvestStores ==
  { Discovered(<< UA, UB >>, Alice), Discovered(<< UB, UC, UD >>, BobDot),
    Discovered(<< UA, UA2 >>, Alice),
    saveLinks(Harvested(<< UA >>, Alice), << UB, UC >>, FALSE, Alice).sub }

InitHarvestStage ==
  /\ stage = "harvest"
  /\ subdata \in HarvestStores
  /\ favorites = << >> /\ files = {} /\ dirs = {}
  /\ WorkersAtRest /\ ReconcilerAtRest /\ NoCalls
  /\ ScrapersAtRest
  /\ SchemaAtRest

\* stores with a saved record whose file name ends with a dot, its file on
\* disk or not
InvalidNameStores ==
  { [ i \in 1..2 |->
        IF i \in bad
        THEN [ Harvested(<< UA, UB >>, Alice)[i] EXCEPT
                 !["content_name"] = << "doc", "." >>, !["is_content_saved"] = 1 ]
        ELSE Harvested(<< UA, UB >>, Alice)[i] ] : bad \in SUBSET { 1, 2 } }

InitPruneStage ==
  /\ stage = "prune"
  /\ subdata \in InvalidNameStores
  /\ favorites = << >>
  /\ files \in SUBSET { GalleryLocation(subdata[i]) : i \in 1..Len(subdata) }
  /\ dirs = { << f[1], f[2] >> : f \in files }
  /\ WorkersAtRest /\ ReconcilerAtRest /\ NoCalls
  /\ ScrapersAtRest
  /\ SchemaAtRest

\* the download stage after a harvest of the links of one listing
InitDownloadStage ==
  /\ InitDownload
  /\ \E n \in 1..MaxItems : subdata = Harvested(SubSeq(<< UC, UD, UB >>, 1, n), Alice)

InitReconcileStage ==
  /\ InitReconcile

\* Another loop of the application (a walk of another listing, a download
\* worker) declares the outage while this component runs: stop.now = true.
OutageDeclared ==
  /\ stage \in { "walk", "harvest", "reconcile" }
  /\ ~stopNow
  /\ stopNow' = TRUE
  /\ UNCHANGED << storeVars, fsVars, thumbnailsRunning, pc, data, idx, job,
                  retryCount, outcome, pendingMissing, streamed, polls, site,
                  reconcilerVars, callVars, restVars >>

InitPipeline ==
  \/ InitWalkStage
  \/ InitHarvestStage
  \/ InitDownloadStage
  \/ InitReconcileStage
  \/ InitPruneStage

NextPipeline ==
  \/ stage = "walk" /\ WalkStart
  \/ stage = "walk" /\ WalkFetchReturn
  \/ stage = "walk" /\ WalkSaveReturn
  \/ stage = "walk" /\ WalkFavoritesReturn
  \/ stage = "walk" /\ WalkWaitDone
  \/ stage = "harvest" /\ HarvestStart
  \/ stage = "harvest" /\ HarvestQueryReturn
  \/ stage = "harvest" /\ HarvestFetchReturn
  \/ stage = "harvest" /\ HarvestSaveReturn
  \/ stage = "harvest" /\ HarvestCommentsReturn
  \/ stage = "harvest" /\ HarvestWaitDone
  \/ stage = "download" /\ StartAllDownloads
  \/ \E w \in Workers : stage = "download" /\ QueryReturn(w)
  \/ \E w \in Workers : stage = "download" /\ HtmlReturn(w)
  \/ \E w \in Workers : stage = "download" /\ ProbeReturn(w)
  \/ \E w \in Workers : stage = "download" /\ StreamEnd(w)
  \/ \E w \in Workers : stage = "download" /\ ReachReturn(w)
  \/ \E w \in Workers : stage = "download" /\ ThenReturn(w)
  \/ \E w \in Workers : stage = "download" /\ WaitDone(w)
  \/ \E w \in Workers : stage = "download" /\ EndWaitDone(w)
  \/ stage = "download" /\ RunMissingMark
  \/ stage = "reconcile" /\ ReorgStart
  \/ stage = "reconcile" /\ ReorgQueryReturn
  \/ stage = "reconcile" /\ ReorgMoveReturn
  \/ stage = "reconcile" /\ ReorgMarkReturn
  \/ stage = "prune" /\ PruneStart
  \/ stage = "prune" /\ PruneQueryReturn
  \/ stage = "prune" /\ PruneRemoveReturn
  \/ stage = "prune" /\ PruneMarkReturn
  \/ OutageDeclared

SpecPipeline == InitPipeline /\ [][NextPipeline]_vars

\* The harvest stage on its own, with progress: every await of
\* scrapeSubmissionInfo settles (getHTML answers or times out, the store
\* call returns, the timer of waitFor fires), so a step of the harvester that
\* is possible is taken in the end.  The outage another loop declares may or
\* may not come.
NextHarvestStage ==
  \/ HarvestStart
  \/ HarvestQueryReturn
  \/ HarvestFetchReturn
  \/ HarvestSaveReturn
  \/ HarvestCommentsReturn
  \/ HarvestWaitDone
  \/ OutageDeclared

SpecHarvestFair ==
  InitHarvestStage /\ [][NextHarvestStage]_vars /\ WF_vars(NextHarvest)

\* ------------------------------------------------------------------- init
\* A database as init() reads and writes it: sqlite_master (the tables, the
\* columns of subdata, the rows of usersettings, user_version) and the rows.
Database ==
  [ master |-> master, sub |-> subdata, fav |-> favorites, com |-> commentdata ]

CreateTable(db, name) ==
  [ db EXCEPT !.master.tables = @ \cup { name } ]

\* CREATE TABLE subdata run whatever the table check found, on a table that
\* is replaced
SubdataTableRecreated(db) ==
  [ CreateTable(db, "subdata") EXCEPT !.master.subdataColumns = Columns,
                                      !.master.user_version = 2,
                                      !.sub = << >> ]

\* if the table check finds no subdata: CREATE TABLE subdata (...) and
\* PRAGMA user_version = 2
SubdataTable(db) ==
  IF "subdata" \in db.master.tables THEN db
  ELSE [ CreateTable(db, "subdata") EXCEPT !.master.subdataColumns = Columns,
                                           !.master.user_version = 2 ]

\* favorites, commentdata and ownedaccounts: created when missing
PlainTable(db, name) ==
  IF name \in db.master.tables THEN db ELSE CreateTable(db, name)

\* usersettings: created when missing, with its default row
SettingsTable(db) ==
  IF "usersettings" \in db.master.tables THEN db
  ELSE [ CreateTable(db, "usersettings") EXCEPT !.master.usersettings = 1 ]

\* upgradeDatabase(db), of database-upgrade.js: it brings a database of an
\* older version to the current one and keeps the rows
upgradeDatabase(db) ==
  IF db.master.user_version < 2 THEN [ db EXCEPT !.master.user_version = 2 ] ELSE db

\* ALTER TABLE subdata ADD COLUMN name definition: every row gets the
\* column's default
AddColumn(db, name) ==
  [ db EXCEPT
      !.master.subdataColumns = @ \cup { name },
      !.sub = [ i \in 1..Len(db.sub) |->
                  [ c \in DOMAIN db.sub[i] \cup { name } |->
                      IF c \in DOMAIN db.sub[i] THEN db.sub[i][c]
                      ELSE DefaultRow[name] ] ] ]

EnsureColumn(db, name) ==
  IF name \in db.master.subdataColumns THEN db ELSE AddColumn(db, name)

\* ensureColumns()
ensureColumns(db) ==
  EnsureColumn(EnsureColumn(EnsureColumn(db, "is_favorite"), "favorite_username"),
               "content_owner")

\* init(), from the table checks on
init(db) ==
  ensureColumns(
    upgradeDatabase(
      PlainTable(
        SettingsTable(
          PlainTable(PlainTable(SubdataTable(db), "favorites"), "commentdata")),
        "ownedaccounts")))

\* the column sets of subdata in databases written by older versions
LegacyColumnSets ==
  { Columns, Columns \ { "content_owner" },
    Columns \ { "is_favorite", "favorite_username", "content_owner" } }

Restrict(tbl, cols) ==
  [ i \in 1..Len(tbl) |-> [ c \in cols |-> tbl[i][c] ] ]

\* init is called: at startup, and again whenever the application
\* reconnects
CallInit ==
  /\ ops < MaxOps
  /\ ops' = ops + 1
  /\ lastOp' = [ op |-> "init", ok |-> TRUE ]
  /\ master' = init(Database).master
  /\ subdata' = init(Database).sub
  /\ favorites' = init(Database).fav
  /\ commentdata' = init(Database).com
  /\ UNCHANGED << fsVars, workerVars, reconcilerVars, stage, scraperVars, txn >>

\* between two calls of init the walker saves links
CallSaveLinksAfterInit ==
  /\ lastOp.op = "init"
  /\ CallSaveLinks

\* the database file init finds: a new file, or the file of this or an
\* older version, with its rows
InitDatabase ==
  /\ stage = "init"
  /\ \E tables \in { {} } \cup { T \in SUBSET TableNames : "subdata" \in T },
        cols \in LegacyColumnSets,
        rows \in { << >>, Discovered(<< UA >>, Alice), Harvested(<< UA, UB >>, Alice) },
        settings \in 0..1, version \in 1..2 :
       /\ master = [ tables |-> tables,
                     subdataColumns |-> IF tables = {} THEN {} ELSE cols,
                     usersettings |-> IF "usersettings" \in tables THEN settings ELSE 0,
                     user_version |-> IF tables = {} THEN 0 ELSE version ]
       /\ subdata = IF tables = {} THEN << >> ELSE Restrict(rows, cols)
       /\ favorites \in IF "favorites" \in tables
                        THEN { << >>, FavoritesWalked(<< UA >>, Alice).fav }
                        ELSE { << >> }
       /\ commentdata \in IF "commentdata" \in tables
                          THEN { << >>,
                                 << Comment(<< "cid:1" >>, << "101" >>,
                                            << "first" >>, << "mon" >>) >> }
                          ELSE { << >> }
  /\ files = {} /\ dirs = {}
  /\ WorkersAtRest /\ ReconcilerAtRest /\ NoCalls
  /\ ScrapersAtRest
  /\ txn = NoTransaction

NextInit ==
  \/ CallInit
  \/ CallSaveLinksAfterInit

SpecInit == InitDatabase /\ [][NextInit]_vars

\* ------------------------------------- transactions on the one connection
\* saveFavorites and getSubmissionPage bracket their statements with BEGIN
\* TRANSACTION and COMMIT / ROLLBACK on the connection every call of the
\* module shares.  Each await is a point where another loop's statement can
\* run.  SQLite has one transaction per connection: BEGIN inside an open
\* transaction is an error, COMMIT and ROLLBACK with none open are errors,
\* a statement run while one is open belongs to it whoever issued it, and
\* ROLLBACK restores the tables as they were at BEGIN.
TxFrame ==
  UNCHANGED << fsVars, workerVars, reconcilerVars, callVars, stage, scraperVars,
               commentdata, master >>

\* BEGIN TRANSACTION succeeds for `owner`
Begun(t, owner) ==
  [ t EXCEPT !.open = TRUE, !.owner = owner, !.sub = subdata, !.fav = favorites ]

\* COMMIT or ROLLBACK has ended the transaction
Ended(t) ==
  [ t EXCEPT !.open = FALSE, !.owner = "none", !.sub = << >>, !.fav = << >> ]

\* the link lists of the favorites pages the walker hands to saveFavorites
TxLinkLists == { << UA >>, << UA, UB >> }

\* the walker calls saveFavorites(username, filteredLinks)
SaveFavoritesCalled ==
  /\ txn.sf = "idle"
  /\ \E links \in TxLinkLists :
       txn' = [ txn EXCEPT !.sf = "begin", !.links = links, !.i = 0 ]
  /\ UNCHANGED storeVars
  /\ TxFrame

\* await db.run('BEGIN TRANSACTION') of saveFavorites settles
SaveFavoritesBegin ==
  /\ txn.sf = "begin"
  /\ txn' = IF txn.open
            THEN [ txn EXCEPT !.sf = "rollback" ]
            ELSE [ Begun(txn, "saveFavorites") EXCEPT !.sf = "insert" ]
  /\ UNCHANGED storeVars
  /\ TxFrame

\* await genericInsert('favorites', ...) settles: the rows are inserted, or
\* the statement is rejected (a primary key conflict, a disk error)
SaveFavoritesInsert ==
  /\ txn.sf = "insert"
  /\ LET inserted == InsertFavorites(favorites, Alice, txn.links)
     IN \E rejected \in BOOLEAN :
          IF rejected \/ ~inserted.ok
          THEN /\ txn' = [ txn EXCEPT !.sf = "rollback" ]
               /\ UNCHANGED favorites
          ELSE /\ txn' = [ txn EXCEPT !.sf = "update" ]
               /\ favorites' = inserted.fav
  /\ UNCHANGED subdata
  /\ TxFrame

\* one UPDATE subdata SET is_favorite = 1 ... WHERE url = ? of the loop
\* settles
SaveFavoritesUpdate ==
  /\ txn.sf = "update"
  /\ \E rejected \in BOOLEAN :
       IF rejected
       THEN /\ txn' = [ txn EXCEPT !.sf = "rollback" ]
            /\ UNCHANGED subdata
       ELSE /\ subdata' = MarkFavorites(subdata, Alice, << txn.links[txn.i + 1] >>, 1)
            /\ txn' = [ txn EXCEPT !.i = @ + 1,
                                   !.sf = IF txn.i + 1 = Len(txn.links)
                                          THEN "commit" ELSE "update" ]
  /\ UNCHANGED favorites
  /\ TxFrame

\* await db.run('COMMIT') of saveFavorites settles
SaveFavoritesCommit ==
  /\ txn.sf = "commit"
  /\ txn' = IF txn.open
            THEN [ Ended(txn) EXCEPT !.sf = "done" ]
            ELSE [ txn EXCEPT !.sf = "rollback" ]
  /\ UNCHANGED storeVars
  /\ TxFrame

\* await db.run('ROLLBACK') in the catch of saveFavorites settles; the error
\* is thrown again
SaveFavoritesRollback ==
  /\ txn.sf = "rollback"
  /\ IF txn.open
     THEN /\ subdata' = txn.sub
          /\ favorites' = txn.fav
          /\ txn' = [ Ended(txn) EXCEPT !.sf = "thrown" ]
     ELSE /\ txn' = [ txn EXCEPT !.sf = "thrown" ]
          /\ UNCHANGED storeVars
  /\ TxFrame

\* the viewer calls getSubmissionPage(id)
GetSubmissionPageCalled ==
  /\ txn.gp = "idle"
  /\ txn' = [ txn EXCEPT !.gp = "begin" ]
  /\ UNCHANGED storeVars
  /\ TxFrame

\* await db.run('BEGIN TRANSACTION') of getSubmissionPage settles
GetSubmissionPageBegin ==
  /\ txn.gp = "begin"
  /\ txn' = IF txn.open
            THEN [ txn EXCEPT !.gp = "rollback" ]
            ELSE [ Begun(txn, "getSubmissionPage") EXCEPT !.gp = "get" ]
  /\ UNCHANGED storeVars
  /\ TxFrame

\* the SELECT of the submission returns: no row (ROLLBACK, return null) or
\* the row; and the SELECT of its comments returns
GetSubmissionPageRead ==
  /\ txn.gp \in { "get", "all" }
  /\ \E found \in BOOLEAN :
       txn' = [ txn EXCEPT !.gp = IF txn.gp = "all" THEN "commit"
                                  ELSE IF found THEN "all" ELSE "rollback" ]
  /\ UNCHANGED storeVars
  /\ TxFrame

\* await db.run('COMMIT') of getSubmissionPage settles
GetSubmissionPageCommit ==
  /\ txn.gp = "commit"
  /\ txn' = IF txn.open
            THEN [ Ended(txn) EXCEPT !.gp = "done" ]
            ELSE [ txn EXCEPT !.gp = "rollback" ]
  /\ UNCHANGED storeVars
  /\ TxFrame

\* await db.run('ROLLBACK') of getSubmissionPage settles
GetSubmissionPageRollback ==
  /\ txn.gp = "rollback"
  /\ IF txn.open
     THEN /\ subdata' = txn.sub
          /\ favorites' = txn.fav
          /\ txn' = [ Ended(txn) EXCEPT !.gp = "ended" ]
     ELSE /\ txn' = [ txn EXCEPT !.gp = "ended" ]
          /\ UNCHANGED storeVars
  /\ TxFrame

\* the .then of a download worker runs db.setContentSaved(content_url) on
\* the same connection
WorkerMarksSaved ==
  /\ \E i \in 1..Len(subdata) :
       /\ subdata[i]["is_content_saved"] = 0
       /\ subdata' = setContentSaved(subdata, subdata[i]["content_url"]).sub
  /\ UNCHANGED << favorites, txn >>
  /\ TxFrame

InitTransaction ==
  /\ subdata = Harvested(<< UA, UB >>, Alice)
  /\ favorites \in { << >>, FavoritesWalked(<< UA >>, Alice).fav }
  /\ files = {}
  /\ dirs = {}
  /\ WorkersAtRest
  /\ ReconcilerAtRest
  /\ NoCalls
  /\ stage = "walk"
  /\ ScrapersAtRest
  /\ SchemaAtRest

NextTransaction ==
  \/ SaveFavoritesCalled
  \/ SaveFavoritesBegin
  \/ SaveFavoritesInsert
  \/ SaveFavoritesUpdate
  \/ SaveFavoritesCommit
  \/ SaveFavoritesRollback
  \/ GetSubmissionPageCalled
  \/ GetSubmissionPageBegin
  \/ GetSubmissionPageRead
  \/ GetSubmissionPageCommit
  \/ GetSubmissionPageRollback
  \/ WorkerMarksSaved

SpecTransaction == InitTransaction /\ [][NextTransaction]_vars

\* ------------------------------------------------------ claims: the store
UniqueUrls(tbl) ==
  \A i, j \in 1..Len(tbl) : i # j => tbl[i]["url"] # tbl[j]["url"]

\* C1: after any sequence of saveLinks calls (mixed with the other store
\* calls) no two submission records share a url, and a saveLinks call that
\* includes a url already present does not fail and leaves every record that
\* existed before it exactly as it was.
C1_IdempotentDiscovery ==
  /\ [] UniqueUrls(subdata)
  /\ [][ (lastOp'.op = "saveLinks" /\ ops' = ops + 1 /\ lastOp'.known)
           => /\ lastOp'.ok
              /\ Len(subdata') >= Len(subdata)
              /\ \A i \in 1..Len(subdata) : subdata'[i] = subdata[i]
              /\ UniqueUrls(subdata') ]_vars

\* C1 witness: saveLinks ran with a url that was present, on a store that
\* holds a harvested record.
C1_Witness ==
  /\ lastOp.op = "saveLinks" /\ lastOp.known /\ lastOp.ok
  /\ \E i \in 1..Len(subdata) : subdata[i]["id"] # NULL

\* --------------------------------------------- claims: the download workers
\* C2: a record has is_content_saved = 1 only if a download stream for its
\* content url finished successfully, whatever the outcome of downloadSetup
\* (success, retry budget exhausted, cancellation seen at a retry, NotFound,
\* SiteDown, rejected file name).
C2_SavedOnlyAfterStream ==
  \A i \in 1..Len(subdata) :
    subdata[i]["is_content_saved"] = 1 => subdata[i]["content_url"] \in streamed

\* a worker enters a download (its existence probe) in this step
IssuesDownload(w) == pc'[w] = "probe" /\ pc[w] # "probe"

\* C3: in an outage (every existence and reachability probe fails), once
\* the cancellation flag is set no worker issues a new download and no step
\* changes a submission record, under every interleaving of the two workers.
C3_OutageQuiesces ==
  [][ (site = "outage" /\ stopNow)
        => /\ subdata' = subdata
           /\ \A w \in Workers : ~IssuesDownload(w) ]_vars

\* In an outage the only record change after the flag is set is the saved
\* mark of a thumbnail whose downloadSetup was cancelled by the flag.
OutageWritesAreCancelledThumbnails ==
  [][ (site = "outage" /\ stopNow /\ subdata' # subdata)
        => /\ pc["thumbnail"] = "then" /\ pc'["thumbnail"] = "wait"
           /\ outcome["thumbnail"] = "cancelled" ]_vars

\* C5: when the attempts of a content item have all failed and the retry
\* budget is exhausted, the item leaves the pass unsaved and not missing, and
\* the unsaved-content poll returns it again.
C5_ExhaustedStaysUnsaved ==
  [][ (pc["content"] = "then" /\ outcome["content"] = "exhausted"
       /\ pc'["content"] # "then")
        => \A i \in 1..Len(subdata') :
             subdata'[i]["content_url"] = job["content"].content_url
               => /\ subdata'[i]["is_content_saved"] = 0
                  /\ subdata'[i]["content_missing"] = 0
                  /\ \E k \in 1..Len(getAllUnsavedContent(subdata')) :
                       getAllUnsavedContent(subdata')[k]["url"] = subdata'[i]["url"]
    ]_vars

\* the rows of tbl that carry url u
RowsOf(tbl, u) == { i \in 1..Len(tbl) : tbl[i]["url"] = u }

\* in tbl no poll for unsaved content returns a row flagged content_missing,
\* and no poll for unsaved thumbnails a row flagged thumbnail_missing
PollsSkipMissing(tbl) ==
  /\ \A i \in 1..Len(tbl) :
       tbl[i]["content_missing"] = 1 =>
         \A k \in 1..Len(getAllUnsavedContent(tbl)) :
           getAllUnsavedContent(tbl)[k]["url"] # tbl[i]["url"]
  /\ \A i \in 1..Len(tbl) :
       tbl[i]["thumbnail_missing"] = 1 =>
         \A k \in 1..Len(getAllUnsavedThumbnails(tbl)) :
           getAllUnsavedThumbnails(tbl)[k]["url"] # tbl[i]["url"]

\* C4: Missing is terminal.  No store call clears content_missing or
\* thumbnail_missing on a record that has it set, and in every state the
\* unsaved-content poll returns no record with content_missing set and the
\* unsaved-thumbnail poll none with thumbnail_missing set.
C4_MissingIsTerminal ==
  /\ [] PollsSkipMissing(subdata)
  /\ [][ \A i \in 1..Len(subdata) : \A j \in RowsOf(subdata', subdata[i]["url"]) :
           /\ subdata[i]["content_missing"] = 1 => subdata'[j]["content_missing"] = 1
           /\ subdata[i]["thumbnail_missing"] = 1 => subdata'[j]["thumbnail_missing"] = 1
       ]_vars

\* C4 witness: a record flagged missing (content, and another for the
\* thumbnail) has been through a later store call.
C4_Witness ==
  /\ lastOp.op \notin { "setContentMissing", "setThumbnailMissing" }
  /\ \E i \in 1..Len(subdata) : subdata[i]["content_missing"] = 1

C4_WitnessThumbnail ==
  /\ lastOp.op \notin { "setContentMissing", "setThumbnailMissing" }
  /\ \E i \in 1..Len(subdata) : subdata[i]["thumbnail_missing"] = 1

\* every relation (username, l), l in urls, is in fav, and every submission
\* with such a url carries the favorite flag and the user's name
FavoritesCommitted(fav, tbl, username, urls) ==
  \A l \in urls :
    /\ \E k \in 1..Len(fav) : fav[k].username = username /\ fav[k].url = l
    /\ \A i \in RowsOf(tbl, l) :
         tbl[i]["is_favorite"] = 1 /\ tbl[i]["favorite_username"] = username

C7_InvalidEntrySkipped ==
  [][ ( /\ lastOp'.op = "saveFavorites" /\ ops' = ops + 1
        /\ lastOp'.invalid /\ lastOp'.urls # {}
        /\ ~lastOp'.repeats /\ ~lastOp'.rejected )
        => /\ lastOp'.ok
           /\ FavoritesCommitted(favorites', subdata', lastOp'.username, lastOp'.urls)
           /\ \A k \in 1..Len(favorites) :
                \E m \in 1..Len(favorites') :
                  /\ favorites'[m].username = favorites[k].username
                  /\ favorites'[m].url = favorites[k].url
    ]_vars

\* C8: when reorganizeFiles is run again after a run has returned, with no
\* download in between, no step of the second (or a later) run changes a
\* submission record, a file or a directory.
C8_SecondRunIsNoOp ==
  [][ run >= 2 => /\ subdata' = subdata
                  /\ files' = files
                  /\ dirs' = dirs ]_vars

\* C8 witness: the second run has returned after a first run that moved a
\* file into its gallery folder and marked its record.
C8_Witness ==
  /\ run = 2 /\ rpc = "idle"
  /\ \E i \in 1..Len(subdata) :
       /\ subdata[i]["is_content_saved"] = 1 /\ subdata[i]["moved_content"] = 1
       /\ GalleryLocation(subdata[i]) \in files
       /\ LegacyLocation(subdata[i]) \notin files

\* property names of d that are no column of subdata
ForeignNames(d) == (DOMAIN d.set \cup d.nulls) \ Columns

\* C9 as claimed: a saveMetaData call given any field name outside the
\* submission columns fails and writes nothing.
C9_ForeignNameRejected ==
  [][ ( /\ lastOp'.op = "saveMetaData" /\ ops' = ops + 1
        /\ ForeignNames(lastOp'.d) # {} )
        => ~lastOp'.ok /\ subdata' = subdata
    ]_vars

\* C9 amended: a field name outside the submission columns is never written.
\* When such a name has a value and is made only of letters, digits and
\* underscores the call fails and writes nothing.  A name with any other
\* character, or whose value is null or undefined, is dropped silently: the
\* call does not fail, and writes the remaining fields (returning null when
\* none remains).
C9_ForeignNameDroppedOrRejected ==
  [][ (lastOp'.op = "saveMetaData" /\ ops' = ops + 1) =>
        LET d == lastOp'.d
            wordNames == { k \in DOMAIN d.set : MatchesIdentifier(k) }
        IN /\ \A i \in 1..Len(subdata') : DOMAIN subdata'[i] = Columns
           /\ (wordNames \ Columns # {}) => (~lastOp'.ok /\ subdata' = subdata)
           /\ (wordNames \ Columns = {}) =>
                /\ lastOp'.ok
                /\ lastOp'.ret = (IF wordNames = {} THEN "null" ELSE "run")
                /\ Len(subdata') = Len(subdata)
                /\ \A i \in 1..Len(subdata) : \A c \in Columns :
                     subdata'[i][c] =
                       IF subdata[i]["url"] = lastOp'.url /\ c \in wordNames
                       THEN d.set[c] ELSE subdata[i][c]
    ]_vars

\* C9 witness: a call that carried a malformed name returned normally after
\* writing its other field.
C9_Witness ==
  /\ lastOp.op = "saveMetaData"
  /\ "bad-key" \in DOMAIN lastOp.d.set
  /\ lastOp.ok /\ lastOp.ret = "run"
  /\ \E i \in 1..Len(subdata) : subdata[i]["title"] = << "probe" >>

\* C10: a new record has no id; an id appears on a record only in a harvester
\* save; and once a record has an id no store call changes it (re-harvest,
\* favorite marking, status marks, saveLinks of the same url).
C10_IdSetOnce ==
  [][ \A j \in 1..Len(subdata') :
        LET before == RowsOf(subdata, subdata'[j]["url"])
        IN /\ before = {} => subdata'[j]["id"] = NULL
           /\ \A i \in before :
                /\ subdata[i]["id"] # NULL => subdata'[j]["id"] = subdata[i]["id"]
                /\ (subdata[i]["id"] = NULL /\ subdata'[j]["id"] # NULL)
                     => lastOp'.op = "harvest"
    ]_vars

\* C10 witness: a record that already had an id was harvested again, from
\* an edited page.
C10_Witness ==
  /\ lastOp.op = "harvest" /\ lastOp.again /\ lastOp.ok
  /\ \E i \in 1..Len(subdata) :
       subdata[i]["id"] # NULL /\ subdata[i]["title"] = << "edited" >>

\* --------------------------------------------------- claims: the pipeline
\* the step removes a record: the store shrinks or a url leaves it
RemovesRecord ==
  \/ Len(subdata') < Len(subdata)
  \/ \E i \in 1..Len(subdata) :
       \A j \in 1..Len(subdata') : subdata'[j]["url"] # subdata[i]["url"]

\* C11: within the pipeline a record is removed only by the harvester, in
\* the step whose fetched detail page reported the submission deleted, and
\* the record removed is the one of the link fetched; no walker, download
\* worker, reconciler or prune step removes a record.
C11_OnlyHarvesterDeletes ==
  [][ RemovesRecord =>
        /\ stage = "harvest"
        /\ harvest.pc = "fetch"
        /\ harvest'.seen = "deleted"
        /\ subdata' = deleteSubmission(subdata,
                                       harvest.links[harvest.index + 1]["url"]).sub
    ]_vars

\* the harvester saw a deleted page and the record of a link it was given
\* has left the store
C11_Witness ==
  /\ stage = "harvest"
  /\ harvest.seen = "deleted"
  /\ \E k \in 1..Len(harvest.links) :
       \A j \in 1..Len(subdata) : subdata[j]["url"] # harvest.links[k]["url"]

\* the record at i before the step is the record at j after it, and its
\* moved_content went from `from` to `to`
MovedChanges(i, j, from, to) ==
  /\ subdata'[j]["url"] = subdata[i]["url"]
  /\ subdata[i]["moved_content"] = from
  /\ subdata'[j]["moved_content"] = to

\* C12 as stated: moved_content goes from 0 to 1 only in a step of
\* reorganizeFiles.
C12_MovedOnlyByReconciler ==
  [][ \A i \in 1..Len(subdata), j \in 1..Len(subdata') :
        MovedChanges(i, j, 0, 1) => stage = "reconcile" ]_vars

\* C12, amended: moved_content goes from 0 to 1 only in a mark of
\* reorganizeFiles (setContentMoved), in the content worker's saved mark
\* (setContentSaved) or in the not-saved mark of deleteInvalidFiles
\* (setContentNotSaved), and it never goes back from 1 to 0.
C12_MovedByThreeMarks ==
  [][ \A i \in 1..Len(subdata), j \in 1..Len(subdata') :
        /\ ~MovedChanges(i, j, 1, 0)
        /\ MovedChanges(i, j, 0, 1) =>
             \/ /\ stage = "reconcile"
                /\ rpc \in { "thenMark", "catchMark" }
                /\ subdata' = setContentMoved(subdata,
                                              rContent[ri + 1]["content_name"]).sub
             \/ /\ stage = "download"
                /\ pc["content"] = "then"
                /\ subdata' = setContentSaved(subdata, job["content"].content_url).sub
             \/ /\ stage = "prune"
                /\ prune.pc = "mark"
                /\ subdata' = setContentNotSaved(subdata, subdata[i]["content_url"]).sub
    ]_vars

\* a record that deleteInvalidFiles marked not saved is marked moved
C12_Witness ==
  /\ stage = "prune"
  /\ prune.i > 0
  /\ \E i \in 1..Len(subdata) :
       subdata[i]["is_content_saved"] = 0 /\ subdata[i]["moved_content"] = 1

\* a record that the content worker marked saved is marked moved
C12_WitnessSaved ==
  /\ stage = "download"
  /\ \E i \in 1..Len(subdata) :
       subdata[i]["is_content_saved"] = 1 /\ subdata[i]["moved_content"] = 1

\* the store holds a record of this url
Known(tbl, url) == \E i \in 1..Len(tbl) : tbl[i]["url"] = url

\* C13: in the step where the walker has a listing page, a link whose url
\* the store already holds is filtered out: it is not counted in newLinks
\* and it is not among the links handed to saveLinks.
C13_KnownLinksFiltered ==
  [][ stage = "walk" /\ walk.pc = "fetch" /\ walk'.pc \notin { "fetch", "backoff" }
      /\ ~stopNow' =>
        LET scrapedLinks == PageAt(walk.gallery, walk.currPageCount)
            unknown == { k \in 1..Len(scrapedLinks) : ~Known(subdata, scrapedLinks[k]) }
        IN /\ walk'.newLinks = walk.newLinks + Cardinality(unknown)
           /\ walk'.pc = "save" =>
                \A k \in 1..Len(walk'.filteredLinks) :
                  ~Known(subdata, walk'.filteredLinks[k])
    ]_vars

\* the walk of the listing with 20 links on page 1 and none on page 2, on a
\* store that knows 5 of them, has logged its report
TwentyLinksWalked ==
  /\ stage = "walk"
  /\ walk.gallery = << TwentyLinks >>
  /\ walk.pc = "done"
  /\ walk.report.logged

\* C14: the walk of 20 links of which 5 are known persists exactly 15,
\* counts newLinks = 15, ends after page 2 and reports 35 found, 15 new and
\* 20 already downloaded; every report has already-downloaded = found - new.
C14_WalkReport ==
  /\ TwentyLinksWalked =>
       /\ Len(subdata) = 5 + 15
       /\ \A n \in 1..20 : Known(subdata, Link(n))
       /\ Cardinality(walk.passed) = 15
       /\ walk.newLinks = 15
       /\ walk.currPageCount = 2
       /\ walk.report = [ logged |-> TRUE, found |-> 35, new |-> 15, skipped |-> 20 ]
  /\ stage = "walk" /\ walk.report.logged =>
       walk.report.skipped = walk.report.found - walk.report.new

\* what the walk of the 20 links does: all 20 are handed to saveLinks and
\* counted as new, 15 records are added, the report is 20 found, 20 new,
\* 0 already downloaded
C14_Observed ==
  TwentyLinksWalked =>
    /\ Len(subdata) = 5 + 15
    /\ Cardinality(walk.passed) = 20
    /\ walk.newLinks = 20
    /\ walk.currPageCount = 2
    /\ walk.report = [ logged |-> TRUE, found |-> 20, new |-> 20, skipped |-> 0 ]

\* the step starts an item: the walker requests a listing page, the
\* harvester a detail page, a download worker enters downloadSetup's probe
\* or the thumbnail page fetch, the reconciler starts a move
StartsItem ==
  \/ walk'.pc = "fetch" /\ walk.pc # "fetch"
  \/ harvest'.pc = "fetch" /\ harvest.pc # "fetch"
  \/ \E w \in Workers : pc'[w] \in { "probe", "html" } /\ pc'[w] # pc[w]
  \/ rpc' = "move" /\ rpc # "move"

InProgress ==
  [ content |-> IF pc["content"] = "streaming"
                THEN { FileLocation(job["content"]) } ELSE {},
    thumbnail |-> IF pc["thumbnail"] = "streaming"
                  THEN { FileLocation(job["thumbnail"]) } ELSE {},
    reorganize |-> IF rpc = "move"
                   THEN { LegacyLocation(rContent[ri + 1]),
                          GalleryLocation(rContent[ri + 1]) }
                   ELSE {},
    prune |-> IF prune.pc = "remove"
              THEN { GalleryLocation(prune.brokenFiles[prune.i + 1]) } ELSE {} ]

\* the paths of the items that each component's query selects by the
\* status flags
Selected ==
  [ content |-> { << ReplaceTrailingDot(AccountOf(r)), SubfolderOf(r), r["content_name"] >> :
                    r \in Range(getAllUnsavedContent(subdata)) },
    thumbnail |-> { << ReplaceTrailingDot(r["account_name"]), "thumbnail",
                       SplitPop(r["thumbnail_url"]) >> :
                      r \in { t \in Range(getAllUnsavedThumbnails(subdata)) :
                                Truthy(t["thumbnail_url"]) } },
    reorganize |-> UNION { { LegacyLocation(r), GalleryLocation(r) } :
                           r \in Range(getAllUnmovedContentData(subdata)) },
    prune |-> { GalleryLocation(r) : r \in Range(getAllInvalidFiles(subdata)) } ]

Disjoint(paths) ==
  \A c, d \in DOMAIN paths : c # d => paths[c] \cap paths[d] = {}

Relations(fav, username, url) ==
  Cardinality({ k \in 1..Len(fav) : fav[k].username = username /\ fav[k].url = url })

\* C17: the favorites table never holds two relations for one
\* (username, url), and a saveFavorites call with valid, distinct urls, none
\* of whose statements is rejected for an outside reason, succeeds also when
\* a relation it saves exists already, and leaves exactly one such relation.
C17_OneRelationAndResave ==
  [][ /\ \A k \in 1..Len(favorites') :
           Relations(favorites', favorites'[k].username, favorites'[k].url) = 1
      /\ ( /\ lastOp'.op = "saveFavorites" /\ ops' = ops + 1
           /\ ~lastOp'.invalid /\ ~lastOp'.repeats /\ ~lastOp'.rejected
           /\ \E l \in lastOp'.urls : Relations(favorites, lastOp'.username, l) = 1 )
          => /\ lastOp'.ok
             /\ \A l \in lastOp'.urls : Relations(favorites', lastOp'.username, l) = 1
    ]_vars

\* what holds of the table: never two relations for one (username, url)
C17_OneRelation ==
  \A k \in 1..Len(favorites) :
    Relations(favorites, favorites[k].username, favorites[k].url) = 1

\* the last comment with this id among the comments saved in one call
LastWithId(comments, id) ==
  comments[CHOOSE k \in 1..Len(comments) :
             /\ comments[k].id = id
             /\ \A m \in (k + 1)..Len(comments) : comments[m].id # id]

\* C18: saveComments is an upsert keyed by the comment id.  After a call the
\* table holds exactly one row for each id saved; a row whose id existed
\* before has the description and date of the comment saved and keeps its
\* other fields; every row of another comment is unchanged.
C18_CommentsUpsert ==
  [][ stage = "harvest" /\ harvest.pc = "comments" /\ harvest'.pc # "comments" =>
        LET cs == harvest.comments
            ids == { cs[k].id : k \in 1..Len(cs) }
        IN /\ \A id \in ids :
                \E k \in 1..Len(commentdata') :
                  /\ commentdata'[k].id = id
                  /\ \A m \in 1..Len(commentdata') : commentdata'[m].id = id => m = k
                  /\ commentdata'[k].desc = LastWithId(cs, id).desc
                  /\ commentdata'[k].date = LastWithId(cs, id).date
                  /\ \A o \in 1..Len(commentdata) :
                       commentdata[o].id = id =>
                         commentdata'[k] = [ commentdata[o] EXCEPT
                                               !.desc = LastWithId(cs, id).desc,
                                               !.date = LastWithId(cs, id).date ]
           /\ \A o \in 1..Len(commentdata) :
                commentdata[o].id \notin ids =>
                  \E k \in 1..Len(commentdata') : commentdata'[k] = commentdata[o]
           /\ Len(commentdata') =
                Len(commentdata)
                  + Cardinality({ id \in ids : \A o \in 1..Len(commentdata) :
                                                 commentdata[o].id # id })
    ]_vars

\* the comment cid:1 was saved together with cid:2 for one submission and
\* then saved again, edited, from the page of another: one row, updated
C18_Witness ==
  /\ stage = "harvest"
  /\ Len(commentdata) = 2
  /\ \E k, m \in 1..2 :
       /\ commentdata[k].id = << "cid:1" >>
       /\ commentdata[k].desc = << "edited" >>
       /\ commentdata[k].date = << "tue" >>
       /\ commentdata[m].id = << "cid:2" >>
       /\ commentdata[k].submission_id = commentdata[m].submission_id

\* ----------------------------------------------------------- claims: init
\* every row of old is in new with the same values in its old columns
RowsKept(old, new) ==
  /\ Len(new) = Len(old)
  /\ \A i \in 1..Len(old) : \A c \in DOMAIN old[i] : new[i][c] = old[i][c]

\* C19: init creates only what is missing and keeps what is there: after a
\* call all five tables and all columns of subdata exist, every table that
\* existed has its rows unchanged (rows of subdata gain the added columns,
\* with their defaults), and a call on a database that init has already run
\* on changes nothing: twice is the same as once.
C19_InitIdempotent ==
  [][ lastOp'.op = "init" /\ ops' = ops + 1 =>
        /\ master'.tables = TableNames
        /\ master'.subdataColumns = Columns
        /\ RowsKept(subdata, subdata')
        /\ \A i \in 1..Len(subdata') : DOMAIN subdata'[i] = Columns
        /\ favorites' = favorites
        /\ commentdata' = commentdata
        /\ "usersettings" \in master.tables => master'.usersettings = master.usersettings
        /\ init(Database') = Database'
        /\ ops >= 1 => Database' = Database
    ]_vars

\* init has run twice on a database of an older version that had rows and
\* lacked tables and columns
C19_Witness ==
  /\ stage = "init"
  /\ lastOp.op = "init"
  /\ ops = 2
  /\ Len(subdata) = 2
  /\ subdata[1]["id"] # NULL
  /\ subdata[1]["is_favorite"] = 0

\* ------------------------------------------------- claims: classification
\* C20: when the existence probe of a content item has failed and the
\* reachability probe answers, no stream is opened, no retry is made and no
\* saved mark is issued.  If the site answered, the item is NotFound: the
\* missing mark for its content_name is issued and the flag is left as it
\* was.  If not (as always when the site is out), it is SiteDown: the flag
\* is set and no missing mark is issued.  A missing mark that runs sets
\* content_missing on the records of that content_name and leaves them
\* unsaved.
C20_ProbeFailureClassified ==
  [][ /\ pc["content"] = "reach" /\ pc'["content"] # "reach" =>
           LET mark == << "content", job["content"].content_name >>
           IN /\ files' = files /\ dirs' = dirs /\ streamed' = streamed
              /\ subdata' = subdata
              /\ pc'["content"] \notin { "probe", "streaming", "then" }
              /\ outcome'["content"] \in { "Not found", "Site down" }
              /\ site = "outage" => outcome'["content"] = "Site down"
              /\ outcome'["content"] = "Not found" =>
                   /\ stopNow' = stopNow
                   /\ pendingMissing' = pendingMissing \cup { mark }
              /\ outcome'["content"] = "Site down" =>
                   /\ stopNow'
                   /\ pendingMissing' = pendingMissing
      /\ \A m \in pendingMissing \ pendingMissing' :
           m[1] = "content" =>
             \A i \in 1..Len(subdata) :
               subdata[i]["content_name"] = m[2] =>
                 /\ subdata'[i]["content_missing"] = 1
                 /\ subdata'[i]["is_content_saved"] = subdata[i]["is_content_saved"]
    ]_vars

\* NotFound: a content item is marked missing, not saved, nothing was
\* streamed and the flag is unset
C20_Witness ==
  /\ stage = "download"
  /\ ~stopNow
  /\ streamed = {} /\ files = {}
  /\ \E i \in 1..Len(subdata) :
       subdata[i]["content_missing"] = 1 /\ subdata[i]["is_content_saved"] = 0

\* SiteDown on a site that is up for the existence probe of other items: the
\* flag is set by the content worker and no record is marked missing
C20_WitnessSiteDown ==
  /\ stage = "download"
  /\ stopNow
  /\ pendingMissing = {}
  /\ \A i \in 1..Len(subdata) :
       subdata[i]["content_missing"] = 0 /\ subdata[i]["thumbnail_missing"] = 0

\* ------------------------------------------------ claims: the thumbnails
\* the thumbnail worker's item was classified NotFound and its missing mark
\* has run: the worker is in the wait that follows the item
ThumbnailNotFoundSettled ==
  /\ pc["thumbnail"] = "wait"
  /\ outcome["thumbnail"] = "Not found"
  /\ \A m \in pendingMissing : m[1] # "thumbnail"

\* the record of the item the thumbnail worker is at
ThumbnailItemRows ==
  { i \in 1..Len(subdata) :
      subdata[i]["url"] = data["thumbnail"][idx["thumbnail"] + 1]["url"] }

\* C21: a thumbnail item whose existence probe failed while the site was
\* reachable ends with thumbnail_missing = 1 and is not selected by the
\* thumbnail poll any more, whether its url came from the store or from the
\* detail page.
C21_ThumbnailNotFoundIsSticky ==
  ThumbnailNotFoundSettled =>
    \A i \in ThumbnailItemRows :
      /\ subdata[i]["thumbnail_missing"] = 1
      /\ ~UnsavedThumbnailWhere(subdata[i])

\* what holds: the item ends marked when its thumbnail url came from the
\* store
C21_StoredUrlIsSticky ==
  ThumbnailNotFoundSettled =>
    \A i \in ThumbnailItemRows :
      Truthy(data["thumbnail"][idx["thumbnail"] + 1]["thumbnail_url"]) =>
        /\ subdata[i]["thumbnail_missing"] = 1
        /\ ~UnsavedThumbnailWhere(subdata[i])

\* ------------------------------------------------ claims: the retries
\* the stream of worker w fails in this step
StreamFails(w) ==
  /\ pc[w] = "streaming"
  /\ ~(pc'[w] = "then" /\ outcome'[w] = "success")
  /\ pc'[w] # "streaming"

\* the rows the saved mark of worker w is for are marked saved in tbl
MarkedSaved(tbl, w) ==
  \A i \in 1..Len(tbl) :
    IF w = "content"
    THEN tbl[i]["content_url"] = job[w].content_url => tbl[i]["is_content_saved"] = 1
    ELSE tbl[i]["url"] = job[w].url => tbl[i]["is_thumbnail_saved"] = 1

\* C22: when a download stream fails the partial file is removed before the
\* next attempt, which starts at once (the next step of the worker is the
\* existence probe of the same item, with no wait); an item is retried at
\* most 5 times; a download that succeeds within the budget after failures
\* ends marked saved; and when the last attempt failed too no file is left
\* at the item's destination path.
C22_RetryRemovesPartialFile ==
  [][ \A w \in Workers :
        /\ StreamFails(w) =>
              /\ FileLocation(job[w]) \notin files'
              /\ (retryCount[w] < maxRetries /\ ~stopNow) =>
                    /\ pc'[w] = "probe"
                    /\ job'[w] = job[w]
                    /\ retryCount'[w] = retryCount[w] + 1
              /\ retryCount[w] >= maxRetries =>
                    /\ pc'[w] = "then"
                    /\ outcome'[w] = "exhausted"
        /\ retryCount'[w] <= maxRetries
        /\ (pc[w] = "then" /\ outcome[w] = "success" /\ pc'[w] # "then")
              => MarkedSaved(subdata', w)
        /\ (pc[w] = "then" /\ outcome[w] = "exhausted")
              => FileLocation(job[w]) \notin files
    ]_vars

\* a content download succeeded at its third attempt
C22_Witness ==
  /\ pc["content"] = "then"
  /\ outcome["content"] = "success"
  /\ retryCount["content"] = 2

\* every attempt of a content item failed
C22_WitnessExhausted ==
  /\ pc["content"] = "then"
  /\ outcome["content"] = "exhausted"
  /\ retryCount["content"] = maxRetries

\* ------------------------------------------------ claims: the walker
\* the walker's page fetch fails in this step
WalkFetchFails == walk.pc = "fetch" /\ walk'.retryCount = walk.retryCount + 1

\* the walk ended because its fetches failed too often
WalkAborted == walk.pc = "done" /\ walk.retryCount >= maxRetriesScrape

\* C23: in the walker the k-th consecutive failed fetch of a page is followed
\* by a wait of 30 * k seconds and then by a fetch of the same page; a fetch
\* that succeeds sets the count of failures back to 0; at the failure that
\* uses up the budget (the 6th in a row) the walker sets the cancellation
\* flag and the walk ends: no page is fetched and nothing is written to the
\* store after it.
C23_WalkerBackoffAndAbort ==
  [][ /\ (WalkFetchFails /\ walk'.retryCount < maxRetriesScrape) =>
            /\ walk'.pc = "backoff"
            /\ walk'.waitMs = 30 * walk'.retryCount * 1000
            /\ walk'.currPageCount = walk.currPageCount
            /\ stopNow' = stopNow
            /\ subdata' = subdata /\ favorites' = favorites
      /\ (walk.pc = "backoff" /\ walk' # walk /\ ~stopNow) =>
            /\ walk'.pc = "fetch"
            /\ walk'.currPageCount = walk.currPageCount
            /\ walk'.retryCount = walk.retryCount
      /\ (walk.pc = "fetch" /\ walk' # walk /\ ~WalkFetchFails) =>
            walk'.retryCount = 0
      /\ (WalkFetchFails /\ walk'.retryCount >= maxRetriesScrape) =>
            /\ stopNow'
            /\ walk'.pc = "done"
            /\ subdata' = subdata /\ favorites' = favorites
      /\ WalkAborted =>
            /\ stopNow /\ stopNow'
            /\ walk' = walk
            /\ subdata' = subdata /\ favorites' = favorites
    ]_vars

\* a walk that got past its first page ended on six failed fetches in a row
C23_Witness ==
  /\ WalkAborted
  /\ walk.currPageCount > 1
  /\ stopNow

\* the walker waits 90 seconds after the third failure in a row, at a page
\* past the first
C23_WitnessThirdWait ==
  /\ walk.pc = "backoff"
  /\ walk.retryCount = 3
  /\ walk.waitMs = 90000
  /\ walk.currPageCount > 1

\* the walker has the page it asked for in this step
WalkFetchSucceeds == walk.pc = "fetch" /\ walk' # walk /\ ~WalkFetchFails

\* the listing page the walker is at
WalkPage == PageAt(walk.gallery, walk.currPageCount)

\* C24: a walk ends as done at the first page that loads and shows no
\* submission links; a favorites walk also ends once it is through with a
\* page that has no next-page cursor, while a gallery walk goes on to the
\* next page; after a walk has ended no page is fetched and nothing is
\* written to the store; and a page of a gallery walk that shows links, all
\* of them known to the store or not, leads to the next page unless the walk
\* is cancelled.
C24_WalkEndsAtEmptyPage ==
  [][ /\ (WalkFetchSucceeds /\ WalkPage = << >>) =>
            /\ walk'.pc = "done"
            /\ ~stopNow => walk'.report.logged
            /\ subdata' = subdata /\ favorites' = favorites
      /\ (walk'.currPageCount = walk.currPageCount + 1
          /\ walk.currPageCount >= Len(walk.gallery)) =>
            IF walk.isFavorites THEN walk'.pc = "done" ELSE walk'.pc = "wait"
      /\ walk.pc \in { "done", "failed" } =>
            /\ walk' = walk
            /\ subdata' = subdata /\ favorites' = favorites
      /\ (~walk.isFavorites /\ ~stopNow /\ WalkPage # << >>
          /\ (WalkFetchSucceeds \/ (walk.pc = "save" /\ walk' # walk))) =>
            /\ walk'.pc \in { "save", "wait" }
            /\ walk'.pc = "wait" => walk'.currPageCount = walk.currPageCount + 1
    ]_vars

\* a gallery walk ended with its report at the empty page after its last page
C24_Witness ==
  /\ stage = "walk"
  /\ ~walk.isFavorites
  /\ walk.pc = "done" /\ walk.report.logged
  /\ Len(walk.gallery) >= 1
  /\ walk.currPageCount = Len(walk.gallery) + 1

\* a favorites walk ended at the page without a next-page cursor
C24_WitnessCursor ==
  /\ stage = "walk"
  /\ walk.isFavorites
  /\ walk.pc = "done" /\ walk.report.logged
  /\ Len(walk.gallery) >= 1
  /\ walk.currPageCount = Len(walk.gallery) + 1
  /\ favorites # << >>

\* a gallery walk goes on after a page whose links the store all knew
C24_WitnessKnownPage ==
  /\ stage = "walk"
  /\ ~walk.isFavorites
  /\ walk.pc = "save"
  /\ \A k \in 1..Len(walk.filteredLinks) : Known(subdata, walk.filteredLinks[k])

\* --------------------------------------------- claims: the harvester
\* the detail page the harvester asked for failed to load in this step
HarvestFetchFails == harvest.pc = "fetch" /\ harvest'.seen = "failed" /\ harvest' # harvest

\* the pass is over: the loop was left with every link visited
HarvestPassOver ==
  harvest.pc \in { "done", "failed" } /\ harvest.index = Len(harvest.links)

\* what holds of a link whose detail page fails to load: at most half the
\* walker's budget of fetches with waits of 30 seconds times the attempt,
\* then the index moves on by one with the record as it was, and the next
\* fetch is for the next link
C25_FailedLoadIsSkipped ==
  [][ /\ harvest.retryCount < maxRetriesScrape \div 2
      /\ (HarvestFetchFails /\ harvest.retryCount + 1 < maxRetriesScrape \div 2) =>
            /\ harvest'.pc = "backoff"
            /\ harvest'.waitMs = 30 * (harvest.retryCount + 1) * 1000
            /\ harvest'.index = harvest.index
            /\ harvest'.retryCount = harvest.retryCount + 1
      /\ (HarvestFetchFails /\ harvest.retryCount + 1 >= maxRetriesScrape \div 2) =>
            /\ harvest'.index = harvest.index + 1
            /\ harvest'.retryCount = 0
            /\ harvest'.pc = "wait"
      /\ HarvestFetchFails => subdata' = subdata
      /\ harvest'.index # harvest.index =>
            /\ harvest'.index = harvest.index + 1
            /\ harvest.pc \in { "fetch", "save", "comments" }
      /\ (harvest.pc = "wait" /\ harvest' # harvest /\ ~stopNow
          /\ harvest.index < Len(harvest.links)) => harvest'.pc = "fetch"
    ]_vars

\* what holds of the end of a pass: it always ends, and when it ends by
\* leaving the loop uncancelled the index is at the end of the queue; a pass
\* that ends because saveMetaData rejected leaves the later links unvisited
C25_PassEnds ==
  /\ <>(harvest.pc \in { "done", "failed" })
  /\ [](harvest.pc = "done" /\ ~stopNow => harvest.index = Len(harvest.links))

\* C25: one bad link never blocks the harvest queue: a link whose detail
\* page keeps failing to load is fetched a bounded number of times and then
\* skipped with its record left unharvested, every later link of the batch
\* is still processed, and unless the run is cancelled the pass ends with
\* the index at the end of the queue.
C25_BadLinkIsSkipped ==
  /\ C25_FailedLoadIsSkipped
  /\ <>(stopNow \/ HarvestPassOver)

\* the harvester skipped a link after its third failed fetch and saved the
\* data of a later link
C25_SkippedAndWentOn ==
  /\ stage = "harvest"
  /\ harvest.pc = "done"
  /\ harvest.index = Len(harvest.links)
  /\ ~stopNow
  /\ \E i, j \in 1..Len(subdata) :
       /\ subdata[i]["id"] = NULL
       /\ subdata[j]["id"] # NULL
       /\ \E a, b \in 1..Len(harvest.links) :
            /\ a < b
            /\ harvest.links[a]["url"] = subdata[i]["url"]
            /\ harvest.links[b]["url"] = subdata[j]["url"]

\* the detail page the harvester asked for loaded and reports the
\* submission deleted
HarvestSeesDeleted ==
  harvest.pc = "fetch" /\ harvest' # harvest /\ harvest'.seen = "deleted"

\* C26: a detail page that loads and reports the submission deleted makes
\* the harvester delete the record and move on to the next link, with no
\* retry wait and no second fetch of the link; the harvester waits and
\* retries only when the page failed to load.
C26_DeletedIsNotRetried ==
  [][ /\ HarvestSeesDeleted =>
            /\ ~Known(subdata', harvest.links[harvest.index + 1]["url"])
            /\ harvest'.index = harvest.index + 1
            /\ harvest'.pc # "backoff"
      /\ (harvest.pc = "fetch" /\ harvest'.pc = "backoff") =>
            harvest'.seen = "failed"
    ]_vars

\* what holds: the page that reports the submission deleted removes the
\* record at once, and is then handled as a fetch that failed
C26_DeletedIsRemovedThenRetried ==
  [][ HarvestSeesDeleted =>
        /\ ~Known(subdata', harvest.links[harvest.index + 1]["url"])
        /\ IF harvest.retryCount + 1 < HarvestRetryLimit
           THEN /\ harvest'.pc = "backoff"
                /\ harvest'.index = harvest.index
                /\ harvest'.waitMs = BackoffMs(harvest.retryCount + 1)
           ELSE harvest'.index = harvest.index + 1
    ]_vars

\* ------------------------------------------------ claims: termination
\* something other than a success or a NotFound has happened to a download:
\* the site is in an outage, the run is cancelled, a stream failed, or
\* downloadSetup rejected for another reason
NotOnlySuccessOrNotFound ==
  \/ site # "up"
  \/ stopNow
  \/ \E w \in Workers :
       \/ retryCount[w] > 0
       \/ outcome[w] \notin { "none", "success", "Not found" }

\* both workers have returned
WorkersStopped == \A w \in Workers : pc[w] = "done"

\* C27: when the site stays reachable and every download that is attempted
\* either succeeds or is NotFound, both workers find their poll empty and
\* stop in the end.
C27_WorkersStop == <>(NotOnlySuccessOrNotFound \/ WorkersStopped)

\* what holds: under the same assumption the content worker stops
C27_ContentWorkerStops == <>(NotOnlySuccessOrNotFound \/ pc["content"] = "done")

\* ---------------------------------------------- claims: cancellation
\* the step issues a network call: a listing or detail page fetch, the page
\* fetch of a thumbnail, an existence probe, a reachability probe, a
\* download stream
IssuesNetworkCall ==
  \/ walk'.pc = "fetch" /\ walk.pc # "fetch"
  \/ harvest'.pc = "fetch" /\ harvest.pc # "fetch"
  \/ \E w \in Workers :
       pc'[w] \in { "html", "probe", "reach", "streaming" } /\ pc'[w] # pc[w]

\* C28: stop.now is checked before every network call (page fetch, existence
\* probe, reachability probe, download stream), in the retry loops too: once
\* it is set no step issues a new network call.
C28_NoNetworkCallOnceCancelled ==
  [][ stopNow => ~IssuesNetworkCall ]_vars

\* ------------------------------------------------- claims: the order
\* the content_name the store holds for the submission at url
NameOf(url) ==
  LET i == CHOOSE i \in 1..Len(subdata) : subdata[i]["url"] = url
  IN subdata[i]["content_name"]

\* batch is in the order of the polls: content_name descending
InQueryOrder(batch) ==
  \A a, b \in 1..Len(batch) :
    a < b => ~TextLess(NameOf(batch[a]["url"]), NameOf(batch[b]["url"]))

\* where a worker is while it attempts an item
Attempting == { "html", "probe", "streaming", "reach", "then" }

\* C29: a worker's batch is in the order of its store query, content_name
\* descending; the worker attempts the items one at a time in that order:
\* the item it works on is always the one at its index, the index moves by
\* one and only after the attempt on the item, retries included, is over,
\* and the batch changes only at a poll.
C29_OneAtATimeInQueryOrder ==
  [][ \A w \in Workers :
        /\ data'[w] # data[w] => InQueryOrder(data'[w])
        /\ pc'[w] \in Attempting => idx'[w] < Len(data'[w])
        /\ (pc'[w] \in Attempting /\ job'[w] # NoJob) =>
              job'[w].url = data'[w][idx'[w] + 1]["url"]
        /\ (pc[w] \in Attempting /\ pc'[w] \in Attempting) =>
              idx'[w] = idx[w] /\ data'[w] = data[w]
        /\ idx'[w] # idx[w] =>
              \/ idx'[w] = idx[w] + 1 /\ pc[w] = "wait" /\ data'[w] = data[w]
              \/ idx'[w] = 0 /\ (pc[w] = "query" \/ pc'[w] = "done")
        /\ data'[w] # data[w] =>
              \/ pc[w] = "query" /\ idx'[w] = 0
              \/ data'[w] = << >>
    ]_vars

\* the content worker attempts the second item of a batch of two with
\* different names
C29_Witness ==
  /\ Len(data["content"]) = 2
  /\ idx["content"] = 1
  /\ pc["content"] = "streaming"
  /\ TextLess(NameOf(data["content"][2]["url"]), NameOf(data["content"][1]["url"]))

\* ------------------------------------------ claims: the thumbnail loop
\* a thumbnail worker loop is between its start and its return
ThumbnailLoopActive == pc["thumbnail"] \notin { "idle", "done" }

\* startThumbnailDownloads is called in this step by startAllDownloads or by
\* the content worker (not by the loop itself after its last item)
ThumbnailLoopStarts ==
  polls'["thumbnail"] # polls["thumbnail"] /\ pc["thumbnail"] # "endwait"

ReorgMoveFails == rpc = "move" /\ rpc' # "move" /\ rpc' # "thenMark"

\* the same, when the step goes straight on to the move of the next item
ReorgMoveFailsAndGoesOn ==
  rpc = "move" /\ rpc' = "move" /\ ri' = ri + 1 /\ files' = files

\* the rows of tbl with the content name of the reconciler's item
ReorgItemRows(tbl) ==
  { i \in 1..Len(tbl) : tbl[i]["content_name"] = rContent[ri + 1]["content_name"] }

\* C31: when the move of an item's file fails and a file of that name is at
\* the destination, the item is marked moved; when none is there the store
\* is left as it was, the item keeps moved_content = 0, and the pass goes on
\* with the next item.
C31_MoveFailureFallback ==
  [][ /\ (ReorgMoveFails \/ ReorgMoveFailsAndGoesOn) =>
            /\ files' = files /\ subdata' = subdata
            /\ IF GalleryLocation(rContent[ri + 1]) \in files
               THEN rpc' = "catchMark" /\ ri' = ri
               ELSE /\ ri' = ri + 1
                    /\ \A i \in ReorgItemRows(subdata') : subdata'[i]["moved_content"] = 0
                    /\ (~stopNow /\ ri + 1 < Len(rContent)) => rpc' = "move"
      /\ rpc = "catchMark" =>
            /\ \A i \in ReorgItemRows(subdata') : subdata'[i]["moved_content"] = 1
            /\ ri' = ri + 1
            /\ (~stopNow /\ ri + 1 < Len(rContent)) => rpc' = "move"
    ]_vars

\* what holds: a failed move with no file at the destination writes nothing
\* and the pass goes on; the flag of the item is then the one it had, which
\* is 1 when the mark of another item with the same content name set it
C31_FailedMoveWritesNothing ==
  [][ /\ (ReorgMoveFails \/ ReorgMoveFailsAndGoesOn) =>
            /\ files' = files /\ subdata' = subdata
            /\ IF GalleryLocation(rContent[ri + 1]) \in files
               THEN rpc' = "catchMark" /\ ri' = ri
               ELSE /\ ri' = ri + 1
                    /\ (~stopNow /\ ri + 1 < Len(rContent)) => rpc' = "move"
      /\ rpc = "catchMark" =>
            /\ \A i \in ReorgItemRows(subdata') : subdata'[i]["moved_content"] = 1
            /\ ri' = ri + 1
    ]_vars

\* a move failed and the file is at the destination
C31_FileAtDestination ==
  /\ rpc = "catchMark"
  /\ GalleryLocation(rContent[ri + 1]) \in files

\* a move failed with no file at the destination and the pass went on to the
\* next item
C31_LeftForNextPass ==
  /\ rpc = "move" /\ ri >= 1
  /\ GalleryLocation(rContent[ri]) \notin files
  /\ \E i \in 1..Len(subdata) :
       /\ subdata[i]["content_name"] = rContent[ri]["content_name"]
       /\ subdata[i]["moved_content"] = 0

\* ------------------------------------------------ claims: the pruning
\* deleteInvalidFiles has returned after pruning at least one item
PruneOver == prune.pc = "done" /\ prune.brokenFiles # << >>

\* the file of every pruned item is gone, its saved flag is 0, and a second
\* query for invalid files is empty
PrunedAndReset ==
  /\ \A k \in 1..Len(prune.brokenFiles) :
       /\ GalleryLocation(prune.brokenFiles[k]) \notin files
       /\ \A i \in 1..Len(subdata) :
            subdata[i]["url"] = prune.brokenFiles[k]["url"]
              => subdata[i]["is_content_saved"] = 0
  /\ getAllInvalidFiles(subdata) = << >>

\* the unsaved-content poll returns the submission at url
PolledAsUnsaved(url) ==
  \E k \in 1..Len(getAllUnsavedContent(subdata)) :
    getAllUnsavedContent(subdata)[k]["url"] = url

\* C32: after deleteInvalidFiles the file of every saved item whose content
\* name ends with a dot is deleted and its is_content_saved is 0, the
\* unsaved-content poll of the content worker returns the item again, and a
\* second query for invalid files returns nothing.
C32_PrunedItemsAreReacquired ==
  PruneOver =>
    /\ PrunedAndReset
    /\ \A k \in 1..Len(prune.brokenFiles) :
         PolledAsUnsaved(prune.brokenFiles[k]["url"])

\* what holds: the files are deleted, the flags reset, and a second run
\* finds nothing to prune
C32_PrunedAndReset == PruneOver => PrunedAndReset

\* ------------------------------------------- claims: the destinations
\* the record of the submission a worker works on
JobRow(w) ==
  subdata[CHOOSE i \in 1..Len(subdata) : subdata[i]["url"] = job[w].url]

\* the folder the claim names for a record
FolderOfRecord(r) ==
  IF r["is_favorite"] = 1 THEN "favorites"
  ELSE IF r["is_scrap"] = 1 THEN "scraps"
  ELSE "gallery"

\* C33: the destination of an item of the content worker is
\* owner/favorites/filename when the submission is a favorite,
\* owner/scraps/filename when it is a scrap and owner/gallery/filename
\* otherwise; the destination of the thumbnail worker is
\* owner/thumbnail/filename.
C33_DestinationByFlags ==
  /\ job["content"] # NoJob =>
        FileLocation(job["content"]) =
          << ReplaceTrailingDot(AccountOf(JobRow("content"))),
             FolderOfRecord(JobRow("content")),
             JobRow("content")["content_name"] >>
  /\ job["thumbnail"] # NoJob =>
        FileLocation(job["thumbnail"]) =
          << ReplaceTrailingDot(JobRow("thumbnail")["account_name"]),
             "thumbnail",
             job["thumbnail"].content_name >>

\* what holds: every item of the content worker goes to owner/gallery, and
\* every thumbnail to owner/thumbnail
C33_AlwaysGallery ==
  /\ job["content"] # NoJob =>
        FileLocation(job["content"]) =
          << ReplaceTrailingDot(AccountOf(JobRow("content"))), "gallery",
             JobRow("content")["content_name"] >>
  /\ job["thumbnail"] # NoJob =>
        FileLocation(job["thumbnail"]) =
          << ReplaceTrailingDot(JobRow("thumbnail")["account_name"]),
             "thumbnail",
             job["thumbnail"].content_name >>

\* the content worker streams a scrap
C33_ScrapStreams ==
  /\ pc["content"] = "streaming"
  /\ JobRow("content")["is_scrap"] = 1

\* --------------------------------------- claims: filesystem errors
\* the .then of an item whose every attempt failed (the write stream or the
\* transport failed each time) returns
ExhaustedItemSettles(w) ==
  pc[w] = "then" /\ outcome[w] = "exhausted" /\ pc'[w] # "then"

\* C34: a filesystem error on one item is confined to that item: the item
\* is skipped for the pass with its status flags unchanged, and the worker
\* or the reconciler goes on with the next item.
C34_FsErrorIsConfined ==
  [][ /\ \A w \in Workers :
            ExhaustedItemSettles(w) =>
              /\ subdata' = subdata
              /\ pc'[w] \in { "wait", "endwait" }
      /\ ReorgMoveFails =>
              /\ subdata' = subdata
              /\ rpc' \in { "move", "catchMark", "idle" }
    ]_vars

\* what holds: the worker and the reconciler go on after the failure
C34_PassGoesOn ==
  [][ /\ \A w \in Workers :
            ExhaustedItemSettles(w) => pc'[w] \in { "wait", "endwait" }
      /\ ReorgMoveFails =>
              /\ subdata' = subdata
              /\ rpc' \in { "move", "catchMark", "idle" }
    ]_vars

\* every attempt of an item of the content worker has failed
C34_WriteFailedEveryTime ==
  /\ pc["content"] = "then"
  /\ outcome["content"] = "exhausted"

\* ------------------------------------------ claims: the status marks
\* the records of tbl other than the reconciler's item
OtherThanReorgItem(tbl) ==
  { i \in 1..Len(tbl) : tbl[i]["content_url"] # rContent[ri + 1]["content_url"] }

\* C35: a status mark issued for one submission changes the flags of that
\* submission only, also when another submission has the same content_url,
\* content_name or thumbnail_url (here: the moved mark of the reconciler).
C35_MarkChangesOneSubmission ==
  [][ (rpc \in { "thenMark", "catchMark" }) =>
        (\A i \in OtherThanReorgItem(subdata) : subdata'[i] = subdata[i])
    ]_vars

\* what holds: the moved mark changes the records with the content name of
\* the item, whoever their creator is, and no other record
C35_MarkChangesEveryRecordOfTheName ==
  [][ (rpc \in { "thenMark", "catchMark" }) =>
        /\ Len(subdata') = Len(subdata)
        /\ \A i \in 1..Len(subdata) :
              IF i \in ReorgItemRows(subdata)
              THEN subdata'[i] = [ subdata[i] EXCEPT !["moved_content"] = 1 ]
              ELSE subdata'[i] = subdata[i]
    ]_vars

\* the moved mark is about to run on a store where another creator's record
\* has the content name of the item
C35_SharedNameIsMarked ==
  /\ rpc \in { "thenMark", "catchMark" }
  /\ OtherThanReorgItem(subdata) \cap ReorgItemRows(subdata) # {}

\* ----------------------------------------- claims: the thumbnail mark
\* C36: a record has is_thumbnail_saved = 1 only if a download stream of its
\* thumbnail finished successfully: not after the retry budget was
\* exhausted, not after a cancellation seen at a retry, and not when no
\* thumbnail url could be resolved.
C36_ThumbnailSavedOnlyAfterStream ==
  \A i \in 1..Len(subdata) :
    subdata[i]["is_thumbnail_saved"] = 1 => subdata[i]["thumbnail_url"] \in streamed

\* what holds: the thumbnail mark is written by the .then of a downloadSetup
\* that resolved (stream finished, budget exhausted or cancelled), and an
\* item with no thumbnail url resolved is left without it
C36_MarkedWhenSetupResolves ==
  [][ \A i \in 1..Len(subdata) :
        (subdata[i]["is_thumbnail_saved"] = 0 /\ subdata'[i]["is_thumbnail_saved"] = 1)
          => /\ pc["thumbnail"] = "then"
             /\ outcome["thumbnail"] \in { "success", "exhausted", "cancelled" }
             /\ subdata[i]["url"] = job["thumbnail"].url
             /\ Truthy(job["thumbnail"].content_url)
    ]_vars

\* every attempt of a thumbnail has failed
C36_ThumbnailExhausted ==
  /\ pc["thumbnail"] = "then"
  /\ outcome["thumbnail"] = "exhausted"

\* ------------------------------------- claims: saved against missing
\* C37: no record has is_content_saved = 1 and content_missing = 1 at once,
\* nor is_thumbnail_saved = 1 and thumbnail_missing = 1, under every
\* interleaving of the workers, of stale poll batches and of the missing
\* marks that are not awaited.
C37_SavedExcludesMissing ==
  \A i \in 1..Len(subdata) :
    /\ ~(subdata[i]["is_content_saved"] = 1 /\ subdata[i]["content_missing"] = 1)
    /\ ~(subdata[i]["is_thumbnail_saved"] = 1 /\ subdata[i]["thumbnail_missing"] = 1)

\* --------------------------------------------- claims: transactions
\* the ROLLBACK of saveFavorites runs in this step
SaveFavoritesRollsBack == txn.sf = "rollback" /\ txn'.sf = "thrown"

\* C38: a store write another loop made while the transaction of
\* saveFavorites was open (the saved mark of a download worker) is not
\* discarded by the ROLLBACK of saveFavorites, and a saveFavorites whose
\* BEGIN failed does not roll back the transaction another operation
\* (getSubmissionPage) opened.
C38_RollbackIsOwn ==
  [][ SaveFavoritesRollsBack =>
        /\ \A i \in 1..Len(subdata) :
              subdata[i]["is_content_saved"] = 1 => subdata'[i]["is_content_saved"] = 1
        /\ txn.owner = "getSubmissionPage" => txn'.open
    ]_vars

\* what holds: the ROLLBACK ends whatever transaction is open on the
\* connection and restores both tables as they were at its BEGIN; with
\* none open it changes nothing
C38_RollbackRestoresBegin ==
  [][ SaveFavoritesRollsBack =>
        /\ ~txn'.open
        /\ IF txn.open
           THEN subdata' = txn.sub /\ favorites' = txn.fav
           ELSE subdata' = subdata /\ favorites' = favorites
    ]_vars

\* saveFavorites is about to roll back its own transaction, in which a
\* worker has marked a record saved
C38_WorkerWroteInside ==
  /\ txn.sf = "rollback"
  /\ txn.open /\ txn.owner = "saveFavorites"
  /\ \E i \in 1..Len(subdata) :
       subdata[i]["is_content_saved"] = 1 /\ txn.sub[i]["is_content_saved"] = 0

\* saveFavorites is about to roll back after its BEGIN failed inside the
\* transaction of getSubmissionPage
C38_BeginFailedInside ==
  /\ txn.sf = "rollback"
  /\ txn.open /\ txn.owner = "getSubmissionPage"

\* ------------------------------------- claims: the end of a download run
\* A thumbnail loop the content worker started is at its first poll.  The
\* loop startAllDownloads starts makes poll 1; a loop that calls itself after
\* its last item keeps its batch in `data` until the poll returns; so a loop
\* at a poll later than the first with no batch was started by the content
\* worker, whose call is not awaited.
OpportunisticLoopActive ==
  /\ pc["thumbnail"] = "query"
  /\ data["thumbnail"] = << >>
  /\ polls["thumbnail"] >= 2

\* Promise.all of startAllDownloads has resolved: the chain of
\* startContentDownloads has returned, and so has the chain of the
\* startThumbnailDownloads call it awaits
AllDownloadsResolved ==
  /\ pc["content"] = "done"
  /\ pc["thumbnail"] = "done" \/ OpportunisticLoopActive

\* C39: startAllDownloads resolves only after the content worker and every
\* thumbnail worker, one started by the content worker included, has
\* stopped: once it has resolved no worker loop is active and no step
\* writes to the store or to the disk.
C39_ResolvesAfterWorkersStop ==
  /\ [](AllDownloadsResolved => ~ThumbnailLoopActive)
  /\ [][ AllDownloadsResolved => (subdata' = subdata /\ files' = files) ]_vars

\* the part about the loops alone
C39_NoLoopAfterResolve == AllDownloadsResolved => ~ThumbnailLoopActive

\* the part about the writes alone
C39_NoWriteAfterResolve ==
  [][ AllDownloadsResolved => (subdata' = subdata /\ files' = files) ]_vars

\* what holds: once startAllDownloads has resolved no download is in
\* flight; a thumbnail loop the content worker started can still be at its
\* poll, and a missing mark called without await can still run
C39_NoDownloadAfterResolve ==
  AllDownloadsResolved =>
    /\ \A w \in Workers : pc[w] \notin { "probe", "streaming", "reach", "then", "html" }
    /\ ThumbnailLoopActive => OpportunisticLoopActive

\* ------------------------------------------- claims: the listing pages
\* the new links of the page the walker is through with are among those it
\* handed to saveLinks
NewLinksHandedOver == Range(walk.filteredLinks) \subseteq walk'.passed

\* C40: the walker never skips a listing page: it goes to the next page
\* (page n + 1, or the page the favorites cursor names) only from a page that
\* was fetched successfully and whose new links were handed to saveLinks,
\* and after a failed fetch the page it fetches is the same page.
C40_NoPageSkipped ==
  [][ /\ walk'.currPageCount \in { walk.currPageCount, walk.currPageCount + 1 }
      /\ walk'.currPageCount = walk.currPageCount + 1 =>
            /\ \/ WalkFetchSucceeds /\ WalkPage # << >> /\ walk'.newLinks = walk.newLinks
               \/ walk.pc \in { "save", "favorites" }
            /\ NewLinksHandedOver
            /\ walk.retryCount = 0
      /\ WalkFetchFails =>
            /\ walk'.currPageCount = walk.currPageCount
            /\ walk'.pc \in { "backoff", "done" }
            /\ walk'.passed = walk.passed
      /\ (walk.pc \in { "backoff", "wait" } /\ walk' # walk) =>
            /\ walk'.currPageCount = walk.currPageCount
            /\ walk'.pc \in { "fetch", "done" }
    ]_vars

\* the second page of a gallery is fetched again after a failed fetch, the
\* links of the first page handed to saveLinks
C40_Witness ==
  /\ stage = "walk"
  /\ ~walk.isFavorites
  /\ walk.pc = "fetch"
  /\ walk.currPageCount = 2
  /\ walk.retryCount = 1
  /\ walk.passed # {}

\* the page the cursor of a favorites listing names is fetched again after a
\* failed fetch
C40_WitnessCursor ==
  /\ stage = "walk"
  /\ walk.isFavorites
  /\ walk.pc = "fetch"
  /\ walk.currPageCount = 2
  /\ walk.retryCount = 1
  /\ walk.passed # {}

====
